---- MODULE Spec2Model ----
(***************************************************************************)
(* Model of the 360Backend REST handlers that move assets between the      *)
(* document store (MongoDB through Mongoose) and the object store (S3).    *)
(*                                                                         *)
(* Strings are sequences of tokens, so that url.split("/").pop() and the   *)
(* template literals that build the public URLs are computed, not assumed. *)
(* A handler is a process: one action per await point of its code.         *)
(***************************************************************************)
EXTENDS Integers, Sequences, FiniteSets, TLC

\* ------------------------------------------------------------------ bounds
\* Files of the images field in one request (multer allows up to MaxCount).
MaxFiles == 2
\* Length up to which addImages may still grow a project's images list.
MaxImages == 2
\* Accounts up to which addAdmin is still requested.
MaxAdmins == 2
\* Requests to the bucket routes that are remembered once answered.
MaxCalls == 3

\* ------------------------------------------------------------------ strings
\* Original names of the files a client submits (multer keeps the base name,
\* so a name holds no "/").
FileNames == { <<"a">>, <<"b">> }

\* No file in the field / a null reference.
NoFile == << >>
Null == << >>

\* `${undefined}` in a template literal.
Undefined == <<"undefined">>

\* Values of a scalar body field; Absent is a field missing from the body.
Absent == "<absent>"

ProjIds == { 1 }
PartnerIds == { 1 }

\* `https://${process.env.BUCKET_NAME}.s3.amazonaws.com/${key}`
UrlPlain(key) ==
    <<"https:", "/", "/", "BUCKET", ".s3", ".amazonaws.com", "/">> \o key

\* `https://${BUCKET_NAME}.s3.${BUCKET_REGION}.amazonaws.com/${key}`
UrlRegional(key) ==
    <<"https:", "/", "/", "BUCKET", ".s3", ".", "REGION", ".amazonaws.com", "/">> \o key

\* url.split("/").pop(): what follows the last "/" of the string.
RECURSIVE SplitPop(_)
SplitPop(url) ==
    IF \A i \in 1..Len(url) : url[i] # "/"
      THEN url
      ELSE SplitPop(Tail(url))

\* Array.prototype.includes / some
Includes(seq, x) == \E i \in 1..Len(seq) : seq[i] = x

\* String.prototype.includes: sub occurs in str as a contiguous run.
IsSubstring(sub, str) ==
    \E i \in 0..(Len(str) - Len(sub)) : SubSeq(str, i + 1, i + Len(sub)) = sub

Range(seq) == { seq[i] : i \in 1..Len(seq) }

\* ------------------------------------------------------------------ state
VARIABLES
    projects,   \* the projects collection: id -> document
    partners,   \* the partners collection: id -> document
    storage,    \* keys of the objects the bucket holds
    req,        \* per handler invocation: its locals and its position
    admins,     \* the admin collection, in insertion order
    areq,       \* per addAdmin invocation: its locals and its position
    stats,      \* the stats collection: id -> document
    sreq,       \* per stats handler invocation: its locals and its position
    history     \* the answered requests to the bucket routes, oldest first

vars ==
    <<projects, partners, storage, req, admins, areq, stats, sreq, history>>

\* Handler invocations that can be in flight at once.
Slots == { 1 }

\* Node serves a second request while the first one awaits: the slots of the
\* specification of concurrent requests.
ConcSlots == { 1, 2 }

\* The two updateProject handlers of the repository.
VRoutes == "routes/projects.js"
VPart7 == "unnamed/part_007"

NoDoc == [title |-> "", images |-> << >>, video |-> Null]
NoPartner == [fullName |-> "", imageUrl |-> Null]

Idle ==
    [ pc |-> "idle", op |-> "none", ver |-> "none", id |-> 0,
      title |-> Absent, files |-> << >>, video |-> NoFile, image |-> NoFile,
      auth |-> "none",
      found |-> FALSE, doc |-> NoDoc, pre |-> NoDoc,
      pdoc |-> NoPartner, ppre |-> NoPartner,
      toDelete |-> << >>, delCalls |-> << >>, vdelCalls |-> << >>,
      dl |-> << >>, delFailed |-> FALSE,
      up |-> << >>, vup |-> "none", saved |-> FALSE, status |-> 0,
      key |-> NoFile, probe |-> "none" ]

AdminSlots == { 1, 2 }

AdminIdle ==
    [ pc |-> "idle", name |-> "", email |-> "", password |-> "",
      checked |-> FALSE, existed |-> FALSE, pre |-> << >>,
      inserted |-> 0, status |-> 0 ]

\* A body value that is JSON null, and one that is the number 0.
JsNull == "<null>"
Zero == "<0>"

StatSlots == { 1 }
StatIds == { 1 }

NoStat == [title |-> "", description |-> ""]

\* The middleware has not run.
NoAuth ==
    [next |-> FALSE, status |-> 0, error |-> "", verified |-> << >>,
     refreshed |-> FALSE, header |-> "none", admin |-> "none"]

StatIdle ==
    [ pc |-> "idle", op |-> "none", id |-> 0,
      authorization |-> "none", refresh_token |-> "none", mw |-> NoAuth,
      title |-> Absent, description |-> Absent,
      found |-> FALSE, doc |-> NoStat, pre |-> NoStat, status |-> 0 ]

Init ==
    /\ admins = << >>
    /\ areq = [s \in AdminSlots |-> AdminIdle]
    /\ projects = << >>
    /\ partners = << >>
    /\ storage = {}
    /\ req = [s \in ConcSlots |-> Idle]
    /\ stats = << >>
    /\ sreq = [s \in StatSlots |-> StatIdle]
    /\ history = << >>

\* ------------------------------------------------------------- collaborators
\* Mongoose casts a value assigned to a String path: the number 0 becomes "0".
CastString(v) == IF v = Zero THEN "0" ELSE v

\* required: true on a String path rejects undefined, null and "".
RequiredString(v) == v \notin {Absent, JsNull, ""}

\* models/Project.js: title and video are required Strings; Mongoose's
\* required validator rejects null and "" (an empty images array passes).
Validates(doc) == RequiredString(doc.title) /\ doc.video # Null

\* Mutant: a falsy body value is taken for a missing field.
SetIfDefined_truthy(given, prior) ==
    IF given \in {Absent, JsNull, "", Zero} THEN prior ELSE CastString(given)

\* if (req.body.x !== undefined) existing.x = req.body.x
SetIfDefined(given, prior) == IF given = Absent THEN prior ELSE CastString(given)

\* if (x) existing.x = x
SetIfTruthy(given, prior) ==
    IF given \in {Absent, JsNull, "", Zero} THEN prior ELSE CastString(given)

\* res.status(st).json(...): the handler's response, after which it returns.
Respond(r, st) == [r EXCEPT !.pc = "done", !.status = st]

\* The status each handler's catch block answers with.
CatchStatus(op) ==
    IF op \in {"updateProject", "addProject"} THEN 400 ELSE 500

\* A slot takes the next request once its handler returned and the storage
\* calls it started settled.
PendingUploads(r) ==
    { i \in 1..Len(r.up) : r.up[i] = "pending" }

PendingDeletes(r) ==
    { i \in 1..Len(r.dl) : r.dl[i] = "pending" }

Ready(s) == req[s].pc = "idle"

Release(s) ==
    /\ req[s].pc = "done"
    /\ PendingUploads(req[s]) = {}
    /\ PendingDeletes(req[s]) = {}
    /\ req[s].vup # "pending"
    /\ req' = [req EXCEPT ![s] = Idle]
    /\ UNCHANGED <<projects, partners, storage, admins, areq, stats, sreq, history>>

\* Outcomes of uploadFile (s3Service): PutObject and unlink both succeed; the
\* PutObject is rejected; the object is put and unlinking the local file fails.
UploadOutcomes == { "ok", "sendFailed", "unlinkFailed" }

Stored(outcome) == outcome \in {"ok", "unlinkFailed"}

Settled(outcome) == IF outcome = "ok" THEN "ok" ELSE "failed"

\* The uploadFile promise of image i settles.
ImageUploadSettles(s, i, outcome) ==
    /\ i \in PendingUploads(req[s])
    /\ storage' = IF Stored(outcome) THEN storage \cup {req[s].files[i]} ELSE storage
    /\ req' = [req EXCEPT ![s].up[i] = Settled(outcome)]
    /\ UNCHANGED <<projects, partners, admins, areq, stats, sreq, history>>

\* Mutant: the handler goes on once the promise settled, fulfilled or not.
Settled_either(p) == p # "pending"

\* await promise: the handler goes on once the promise is fulfilled.
Resolved(p) == p = "ok"

\* Mutant: Promise.allSettled, which waits and never rejects.
AllSettled(ps) == \A i \in 1..Len(ps) : ps[i] # "pending"

\* Mutant: the promises are not awaited.
NotAwaited(ps) == TRUE

\* await Promise.all(promises): fulfilled once every promise is; rejected as
\* soon as one is.
AllResolved(ps) == \A i \in 1..Len(ps) : Resolved(ps[i])

SomeRejected(ps) == \E i \in 1..Len(ps) : ps[i] = "failed"

\* The file of a single-file field: a project's video, a partner's image.
SingleFile(r) == IF r.image # NoFile THEN r.image ELSE r.video

\* Mutant: the object is stored under a key that starts with the record's id.
VideoUploadSettles_prefixed(s, outcome) ==
    /\ req[s].vup = "pending"
    /\ storage' = IF Stored(outcome)
                    THEN storage \cup {<<"id", "/">> \o SingleFile(req[s])}
                    ELSE storage
    /\ req' = [req EXCEPT ![s].vup = Settled(outcome)]
    /\ UNCHANGED <<projects, partners, admins, areq, stats, sreq, history>>

\* The uploadFile promise of the single file (awaited on its own) settles.
VideoUploadSettles(s, outcome) ==
    /\ req[s].vup = "pending"
    /\ storage' = IF Stored(outcome) THEN storage \cup {SingleFile(req[s])} ELSE storage
    /\ req' = [req EXCEPT ![s].vup = Settled(outcome)]
    /\ UNCHANGED <<projects, partners, admins, areq, stats, sreq, history>>

\* The deleteFile promise of parallel delete i settles (deleteProject and
\* deleteImages start their deletes together and join them with Promise.all).
DeleteSettles(s, i, ok) ==
    /\ i \in PendingDeletes(req[s])
    /\ storage' = IF ok THEN storage \ {SplitPop(req[s].toDelete[i])} ELSE storage
    /\ req' = [req EXCEPT ![s].dl[i] = IF ok THEN "ok" ELSE "failed",
                          ![s].delFailed = @ \/ ~ok]
    /\ UNCHANGED <<projects, partners, admins, areq, stats, sreq, history>>

\* await Promise.all(deletePromises) rejects.
awaitDeletes_rejected(s) ==
    /\ req[s].pc = "awaitDeletes"
    /\ SomeRejected(req[s].dl)
    /\ UNCHANGED <<projects, partners, storage, admins, areq, stats, sreq, history>>
    /\ req' = [req EXCEPT ![s] = Respond(@, 500)]

\* ------------------------------------------------------------ updateProject
\* Mutant: the file name is compared with the whole URL.
imagesToDelete_wholeUrl(existingImages, newImages) ==
    SelectSeq(existingImages,
              LAMBDA url : ~ \E i \in 1..Len(newImages) : newImages[i] = url)

\* existingImages.filter(url => !newImages.some(image =>
\*     image.originalname === url.split("/").pop()))
imagesToDelete(existingImages, newImages) ==
    SelectSeq(existingImages,
              LAMBDA url : ~ \E i \in 1..Len(newImages) : newImages[i] = SplitPop(url))

\* What uploadFile's promise resolves to: the function returns nothing.
uploadFile_result(key) == Undefined

\* The URLs updateProject makes of the settled uploads.
\*   routes/projects.js: uploadedImageUrls.map(url => `https://B.s3.amazonaws.com/${url}`)
\*   part_007: uploadFile(...).then(() => `https://B.s3.R.amazonaws.com/${imageKey}`)
uploadedImageUrls(ver, files) ==
    [i \in 1..Len(files) |->
        IF ver = VRoutes THEN UrlPlain(uploadFile_result(files[i]))
                         ELSE UrlRegional(files[i])]

\* [...existingImages.filter(url => !imagesToDelete.includes(url)), ...uploaded]
updatedImages(ver, existingImages, files) ==
    SelectSeq(existingImages,
              LAMBDA url : ~ Includes(imagesToDelete(existingImages, files), url))
      \o uploadedImageUrls(ver, files)

\* req.body.title ?? existingProject.title: undefined and null give the prior.
Coalesce(given, prior) ==
    IF given \in {Absent, JsNull} THEN prior ELSE CastString(given)

\* findById, the scalar fields and the filter, up to the first await deleteFile.
updateProject_begin(s, ver, id, title, files, video) ==
    /\ Ready(s)
    /\ UNCHANGED <<projects, partners, storage, admins, areq, stats, sreq, history>>
    /\ LET r0 == [Idle EXCEPT !.op = "updateProject", !.ver = ver, !.id = id,
                              !.title = title, !.files = files, !.video = video]
       IN IF id \notin DOMAIN projects
            THEN req' = [req EXCEPT ![s] = Respond(r0, 404)]
            ELSE /\ Len(updatedImages(ver, projects[id].images, files)) <= MaxImages
                 /\ req' = [req EXCEPT ![s] =
                    [r0 EXCEPT !.pc = "delImages", !.found = TRUE,
                               !.pre = projects[id],
                               !.doc = [projects[id] EXCEPT
                                          !.title = Coalesce(title, @)],
                               !.toDelete = imagesToDelete(projects[id].images, files)]]

\* for (const oldImageUrl of imagesToDelete) await deleteFile(bucket, key)
updateProject_deleteImage(s, ok) ==
    /\ req[s].op = "updateProject"
    /\ req[s].pc = "delImages"
    /\ req[s].toDelete # << >>
    /\ UNCHANGED <<projects, partners, admins, areq, stats, sreq, history>>
    /\ LET key == SplitPop(Head(req[s].toDelete))
           r1 == [req[s] EXCEPT !.delCalls = Append(@, key)]
       IN IF ok
            THEN /\ storage' = storage \ {key}
                 /\ req' = [req EXCEPT ![s] = [r1 EXCEPT !.toDelete = Tail(@)]]
            ELSE /\ storage' = storage
                 /\ req' = [req EXCEPT ![s] = Respond([r1 EXCEPT !.delFailed = TRUE], 400)]

\* newImages.map(image => uploadFile(...)): every upload is started.
updateProject_startUploads(s) ==
    /\ req[s].op = "updateProject"
    /\ req[s].pc = "delImages"
    /\ req[s].toDelete = << >>
    /\ UNCHANGED <<projects, partners, storage, admins, areq, stats, sreq, history>>
    /\ req' = [req EXCEPT ![s].pc = "awaitImages",
                          ![s].up = [i \in 1..Len(req[s].files) |-> "pending"]]

\* await Promise.all(imageUploadPromises) rejects as soon as one upload is
\* rejected, whatever the others do: the catch block answers.
awaitImages_rejected(s) ==
    /\ req[s].pc = "awaitImages"
    /\ SomeRejected(req[s].up)
    /\ UNCHANGED <<projects, partners, storage, admins, areq, stats, sreq, history>>
    /\ req' = [req EXCEPT ![s] = Respond(@, CatchStatus(@.op))]

\* await Promise.all(imageUploadPromises) resolves: the images list is rebuilt
\* and the video branch is chosen.
updateProject_imagesDone(s) ==
    /\ req[s].op = "updateProject"
    /\ req[s].pc = "awaitImages"
    /\ AllResolved(req[s].up)
    /\ UNCHANGED <<projects, partners, storage, admins, areq, stats, sreq, history>>
    /\ LET r == req[s]
           r1 == [r EXCEPT !.doc.images = updatedImages(r.ver, r.pre.images, r.files)]
       IN req' = [req EXCEPT ![s] =
             IF r.video # NoFile
               THEN IF r.doc.video # Null
                      THEN [r1 EXCEPT !.pc = "delOldVideo"]
                      ELSE [r1 EXCEPT !.pc = "awaitVideo", !.vup = "pending"]
               ELSE IF r.ver = VRoutes /\ r.doc.video # Null
                      THEN [r1 EXCEPT !.pc = "clearVideo"]
                      ELSE [r1 EXCEPT !.pc = "save"]]

\* if (existingProject.video) await deleteFile(bucket, oldVideoKey); then the
\* upload of the new video is started.
replaceVideo_deleteOld(s, ok) ==
    /\ req[s].op \in {"updateProject", "addVideo"}
    /\ req[s].pc = "delOldVideo"
    /\ UNCHANGED <<projects, partners, admins, areq, stats, sreq, history>>
    /\ LET key == SplitPop(req[s].doc.video)
           r1 == [req[s] EXCEPT !.vdelCalls = Append(@, key)]
       IN IF ok
            THEN /\ storage' = storage \ {key}
                 /\ req' = [req EXCEPT ![s] =
                              [r1 EXCEPT !.pc = "awaitVideo", !.vup = "pending"]]
            ELSE /\ storage' = storage
                 /\ req' = [req EXCEPT ![s] =
                              Respond([r1 EXCEPT !.delFailed = TRUE],
                                      CatchStatus(r1.op))]

\* await uploadFile(bucket, videoKey, ...) rejects.
awaitVideo_rejected(s) ==
    /\ req[s].pc = "awaitVideo"
    /\ req[s].vup = "failed"
    /\ UNCHANGED <<projects, partners, storage, admins, areq, stats, sreq, history>>
    /\ req' = [req EXCEPT ![s] = Respond(@, CatchStatus(@.op))]

\* routes/projects.js: existingProject.video = `https://B.s3.amazonaws.com/${videoKey}`
updateProject_videoDone(s) ==
    /\ req[s].op = "updateProject"
    /\ req[s].pc = "awaitVideo"
    /\ Resolved(req[s].vup)
    /\ UNCHANGED <<projects, partners, storage, admins, areq, stats, sreq, history>>
    /\ req' = [req EXCEPT ![s].pc = "save",
                          ![s].doc.video = UrlPlain(req[s].video)]

\* routes/projects.js, else if (!video && existingProject.video): the stored
\* video is deleted and the reference cleared.
updateProject_clearVideo(s, ok) ==
    /\ req[s].op = "updateProject"
    /\ req[s].pc = "clearVideo"
    /\ UNCHANGED <<projects, partners, admins, areq, stats, sreq, history>>
    /\ LET key == SplitPop(req[s].doc.video)
           r1 == [req[s] EXCEPT !.vdelCalls = Append(@, key)]
       IN IF ok
            THEN /\ storage' = storage \ {key}
                 /\ req' = [req EXCEPT ![s] =
                              [r1 EXCEPT !.pc = "save", !.doc.video = Null]]
            ELSE /\ storage' = storage
                 /\ req' = [req EXCEPT ![s] = Respond([r1 EXCEPT !.delFailed = TRUE], 400)]

\* await existingProject.save(): validation, then the write; dbOk is whether
\* the database accepts the write.
updateProject_save(s, dbOk) ==
    /\ req[s].op = "updateProject"
    /\ req[s].pc = "save"
    /\ UNCHANGED <<partners, storage, admins, areq, stats, sreq, history>>
    /\ IF Validates(req[s].doc) /\ dbOk
         THEN /\ projects' = [projects EXCEPT ![req[s].id] = req[s].doc]
              /\ req' = [req EXCEPT ![s] = Respond([@ EXCEPT !.saved = TRUE], 200)]
         ELSE /\ projects' = projects
              /\ req' = [req EXCEPT ![s] = Respond(@, 400)]

\* --------------------------------------------------------------- addProject
FreeIds == ProjIds \ DOMAIN projects

\* images.map(image => uploadFile(...)) starts the image uploads; with a video
\* its upload is started and awaited first.  No images field: images is
\* undefined and images.map throws inside the try.
addProject_begin(s, title, files, video) ==
    /\ Ready(s)
    /\ FreeIds # {}
    /\ UNCHANGED <<projects, partners, storage, admins, areq, stats, sreq, history>>
    /\ LET r0 == [Idle EXCEPT !.op = "addProject", !.title = title,
                              !.files = files, !.video = video]
       IN IF files = << >>
            THEN req' = [req EXCEPT ![s] = Respond(r0, 400)]
            ELSE req' = [req EXCEPT ![s] =
                    [r0 EXCEPT !.up = [i \in 1..Len(files) |-> "pending"],
                               !.vup = IF video # NoFile THEN "pending" ELSE "none",
                               !.pc = IF video # NoFile THEN "awaitVideo"
                                                        ELSE "awaitImages"]]

\* videoUrl = `https://B.s3.amazonaws.com/${videoKey}`
addProject_videoDone(s) ==
    /\ req[s].op = "addProject"
    /\ req[s].pc = "awaitVideo"
    /\ Resolved(req[s].vup)
    /\ UNCHANGED <<projects, partners, storage, admins, areq, stats, sreq, history>>
    /\ req' = [req EXCEPT ![s].pc = "awaitImages",
                          ![s].doc.video = UrlPlain(req[s].video)]

\* new Project({ title, ..., images: images.map(image =>
\*     `https://B.s3.amazonaws.com/${image.originalname}`), video: videoUrl })
addProject_imagesDone(s) ==
    /\ req[s].op = "addProject"
    /\ req[s].pc = "awaitImages"
    /\ AllResolved(req[s].up)
    /\ UNCHANGED <<projects, partners, storage, admins, areq, stats, sreq, history>>
    /\ req' = [req EXCEPT
                 ![s].pc = "save",
                 ![s].doc.title = IF req[s].title = Absent THEN "" ELSE req[s].title,
                 ![s].doc.images = [i \in 1..Len(req[s].files) |-> UrlPlain(req[s].files[i])]]

\* await project.save(): the document is inserted under a fresh _id.
addProject_save(s, dbOk) ==
    /\ req[s].op = "addProject"
    /\ req[s].pc = "save"
    /\ FreeIds # {}
    /\ UNCHANGED <<partners, storage, admins, areq, stats, sreq, history>>
    /\ IF Validates(req[s].doc) /\ dbOk
         THEN LET id == CHOOSE i \in FreeIds : \A j \in FreeIds : i <= j
              IN /\ projects' = [i \in DOMAIN projects \cup {id} |->
                                    IF i = id THEN req[s].doc ELSE projects[i]]
                 /\ req' = [req EXCEPT ![s] =
                              Respond([@ EXCEPT !.saved = TRUE, !.id = id], 201)]
         ELSE /\ projects' = projects
              /\ req' = [req EXCEPT ![s] = Respond(@, 400)]

\* ------------------------------------------------------------ deleteProject
RemoveDoc(coll, id) == [i \in DOMAIN coll \ {id} |-> coll[i]]

\* findById; imageKeys.map(key => deleteFile(...)) starts the image deletes;
\* with a video its delete is awaited first.
deleteProject_begin(s, id) ==
    /\ Ready(s)
    /\ UNCHANGED <<projects, partners, storage, admins, areq, stats, sreq, history>>
    /\ LET r0 == [Idle EXCEPT !.op = "deleteProject", !.id = id]
       IN IF id \notin DOMAIN projects
            THEN req' = [req EXCEPT ![s] = Respond(r0, 404)]
            ELSE req' = [req EXCEPT ![s] =
                    [r0 EXCEPT !.found = TRUE, !.pre = projects[id],
                               !.doc = projects[id],
                               !.toDelete = projects[id].images,
                               !.delCalls = [i \in 1..Len(projects[id].images) |->
                                               SplitPop(projects[id].images[i])],
                               !.dl = [i \in 1..Len(projects[id].images) |-> "pending"],
                               !.pc = IF projects[id].video # Null
                                        THEN "delVideo" ELSE "awaitDeletes"]]

\* if (videoKey) await deleteFile(bucket, videoKey)
deleteProject_deleteVideo(s, ok) ==
    /\ req[s].op = "deleteProject"
    /\ req[s].pc = "delVideo"
    /\ UNCHANGED <<projects, partners, admins, areq, stats, sreq, history>>
    /\ LET key == SplitPop(req[s].doc.video)
           r1 == [req[s] EXCEPT !.vdelCalls = Append(@, key)]
       IN IF ok
            THEN /\ storage' = storage \ {key}
                 /\ req' = [req EXCEPT ![s] = [r1 EXCEPT !.pc = "awaitDeletes"]]
            ELSE /\ storage' = storage
                 /\ req' = [req EXCEPT ![s] = Respond([r1 EXCEPT !.delFailed = TRUE], 500)]

\* await Promise.all(deleteImagePromises); await Project.findByIdAndDelete(id)
deleteProject_remove(s, dbOk) ==
    /\ req[s].op = "deleteProject"
    /\ req[s].pc = "awaitDeletes"
    /\ AllResolved(req[s].dl)
    /\ UNCHANGED <<partners, storage, admins, areq, stats, sreq, history>>
    /\ IF dbOk
         THEN /\ projects' = RemoveDoc(projects, req[s].id)
              /\ req' = [req EXCEPT ![s] = Respond([@ EXCEPT !.saved = TRUE], 200)]
         ELSE /\ projects' = projects
              /\ req' = [req EXCEPT ![s] = Respond(@, 500)]

\* ----------------------------------------------------------------- addVideo
\* findById; no file: 400; an old video is deleted first, then the upload.
addVideo_begin(s, id, video) ==
    /\ Ready(s)
    /\ UNCHANGED <<projects, partners, storage, admins, areq, stats, sreq, history>>
    /\ LET r0 == [Idle EXCEPT !.op = "addVideo", !.id = id, !.video = video]
       IN IF id \notin DOMAIN projects
            THEN req' = [req EXCEPT ![s] = Respond(r0, 404)]
            ELSE LET r1 == [r0 EXCEPT !.found = TRUE, !.pre = projects[id],
                                      !.doc = projects[id]]
                 IN req' = [req EXCEPT ![s] =
                       IF video = NoFile THEN Respond(r1, 400)
                       ELSE IF r1.doc.video # Null
                              THEN [r1 EXCEPT !.pc = "delOldVideo"]
                              ELSE [r1 EXCEPT !.pc = "awaitVideo", !.vup = "pending"]]

\* existingProject.video = `https://B.s3.R.amazonaws.com/${videoKey}`
addVideo_videoDone(s) ==
    /\ req[s].op = "addVideo"
    /\ req[s].pc = "awaitVideo"
    /\ Resolved(req[s].vup)
    /\ UNCHANGED <<projects, partners, storage, admins, areq, stats, sreq, history>>
    /\ req' = [req EXCEPT ![s].pc = "save",
                          ![s].doc.video = UrlRegional(req[s].video)]

\* Mutant: the save appends the new addresses to the list as it is stored at
\* that moment ($push) instead of writing the list the handler read and extended.
document_save_push(s, dbOk) ==
    /\ req[s].op \in {"addVideo", "addImages", "deleteImages", "editProjectData",
                     "deleteVideo"}
    /\ req[s].pc = "save"
    /\ UNCHANGED <<partners, storage, admins, areq, stats, sreq, history>>
    /\ IF Validates(req[s].doc) /\ dbOk
         THEN /\ projects' = [projects EXCEPT ![req[s].id] =
                    [req[s].doc EXCEPT !.images =
                        IF req[s].op = "addImages"
                          THEN projects[req[s].id].images
                                 \o SubSeq(req[s].doc.images,
                                           Len(req[s].pre.images) + 1,
                                           Len(req[s].doc.images))
                          ELSE @]]
              /\ req' = [req EXCEPT ![s] = Respond([@ EXCEPT !.saved = TRUE], 200)]
         ELSE /\ projects' = projects
              /\ req' = [req EXCEPT ![s] = Respond(@, 500)]

\* await existingProject.save() of addVideo, addImages and deleteImages.
document_save(s, dbOk) ==
    /\ req[s].op \in {"addVideo", "addImages", "deleteImages", "editProjectData",
                     "deleteVideo"}
    /\ req[s].pc = "save"
    /\ UNCHANGED <<partners, storage, admins, areq, stats, sreq, history>>
    /\ IF Validates(req[s].doc) /\ dbOk
         THEN /\ projects' = [projects EXCEPT ![req[s].id] = req[s].doc]
              /\ req' = [req EXCEPT ![s] = Respond([@ EXCEPT !.saved = TRUE], 200)]
         ELSE /\ projects' = projects
              /\ req' = [req EXCEPT ![s] = Respond(@, 500)]

\* -------------------------------------------------------------- deleteVideo
\* DELETE /deleteVideo/:id: findById: 404; no video on the record: 404.
deleteVideo_begin(s, id) ==
    /\ Ready(s)
    /\ UNCHANGED <<projects, partners, storage, admins, areq, stats, sreq, history>>
    /\ LET r0 == [Idle EXCEPT !.op = "deleteVideo", !.id = id]
       IN IF id \notin DOMAIN projects
            THEN req' = [req EXCEPT ![s] = Respond(r0, 404)]
            ELSE LET r1 == [r0 EXCEPT !.found = TRUE, !.pre = projects[id],
                                      !.doc = projects[id]]
                 IN req' = [req EXCEPT ![s] =
                       IF projects[id].video = Null
                         THEN Respond(r1, 404)
                         ELSE [r1 EXCEPT !.pc = "delVideo"]]

\* await deleteFile(bucket, oldVideoKey); existingProject.video = null; the
\* save that follows is document_save.
deleteVideo_deleteFile(s, ok) ==
    /\ req[s].op = "deleteVideo"
    /\ req[s].pc = "delVideo"
    /\ UNCHANGED <<projects, partners, admins, areq, stats, sreq, history>>
    /\ LET key == SplitPop(req[s].doc.video)
           r1 == [req[s] EXCEPT !.vdelCalls = Append(@, key)]
       IN IF ok
            THEN /\ storage' = storage \ {key}
                 /\ req' = [req EXCEPT ![s] =
                              [r1 EXCEPT !.pc = "save", !.doc.video = Null]]
            ELSE /\ storage' = storage
                 /\ req' = [req EXCEPT ![s] = Respond([r1 EXCEPT !.delFailed = TRUE], 500)]

\* ---------------------------------------------------------------- addImages
\* findById; no files: 400; the uploads are started together.
addImages_begin(s, id, files) ==
    /\ Ready(s)
    /\ UNCHANGED <<projects, partners, storage, admins, areq, stats, sreq, history>>
    /\ LET r0 == [Idle EXCEPT !.op = "addImages", !.id = id, !.files = files]
       IN IF id \notin DOMAIN projects
            THEN req' = [req EXCEPT ![s] = Respond(r0, 404)]
            ELSE LET r1 == [r0 EXCEPT !.found = TRUE, !.pre = projects[id],
                                      !.doc = projects[id]]
                 IN /\ Len(projects[id].images) + Len(files) <= MaxImages
                    /\ req' = [req EXCEPT ![s] =
                          IF files = << >> THEN Respond(r1, 400)
                          ELSE [r1 EXCEPT !.pc = "awaitImages",
                                          !.up = [i \in 1..Len(files) |-> "pending"]]]

\* existingProject.images = [...existingProject.images, ...uploadedImageUrls]
addImages_imagesDone(s) ==
    /\ req[s].op = "addImages"
    /\ req[s].pc = "awaitImages"
    /\ AllResolved(req[s].up)
    /\ UNCHANGED <<projects, partners, storage, admins, areq, stats, sreq, history>>
    /\ req' = [req EXCEPT
                 ![s].pc = "save",
                 ![s].doc.images =
                     @ \o [i \in 1..Len(req[s].files) |-> UrlRegional(req[s].files[i])]]

\* ------------------------------------------------------------- deleteImages
\* existingProject.images.filter(imageUrl =>
\*     imageNames.some(imageName => imageUrl.includes(imageName)))
matchingImages(images, imageNames) ==
    SelectSeq(images,
              LAMBDA url : \E i \in 1..Len(imageNames) : IsSubstring(imageNames[i], url))

\* imageNames must be an array: 400; findById: 404; nothing matches: 404;
\* the deletes are started together.
deleteImages_begin(s, id, isArray, imageNames) ==
    /\ Ready(s)
    /\ UNCHANGED <<projects, partners, storage, admins, areq, stats, sreq, history>>
    /\ LET r0 == [Idle EXCEPT !.op = "deleteImages", !.id = id, !.files = imageNames]
       IN IF ~isArray
            THEN req' = [req EXCEPT ![s] = Respond(r0, 400)]
            ELSE IF id \notin DOMAIN projects
            THEN req' = [req EXCEPT ![s] = Respond(r0, 404)]
            ELSE LET del == matchingImages(projects[id].images, imageNames)
                     r1 == [r0 EXCEPT !.found = TRUE, !.pre = projects[id],
                                      !.doc = projects[id], !.toDelete = del]
                 IN req' = [req EXCEPT ![s] =
                       IF del = << >> THEN Respond(r1, 404)
                       ELSE [r1 EXCEPT !.pc = "awaitDeletes",
                                       !.delCalls = [i \in 1..Len(del) |-> SplitPop(del[i])],
                                       !.dl = [i \in 1..Len(del) |-> "pending"]]]

\* await Promise.all(deletePromises); existingProject.images =
\*     existingProject.images.filter(imageUrl => !imagesToDelete.includes(imageUrl))
deleteImages_deletesDone(s) ==
    /\ req[s].op = "deleteImages"
    /\ req[s].pc = "awaitDeletes"
    /\ AllResolved(req[s].dl)
    /\ UNCHANGED <<projects, partners, storage, admins, areq, stats, sreq, history>>
    /\ req' = [req EXCEPT
                 ![s].pc = "save",
                 ![s].doc.images =
                     SelectSeq(@, LAMBDA url : ~ Includes(req[s].toDelete, url))]

\* ---------------------------------------------------------- editProjectData
\* PUT /editProjectData/:id: findById: 404; the truthy body fields are set.
editProjectData_begin(s, id, title) ==
    /\ Ready(s)
    /\ UNCHANGED <<projects, partners, storage, admins, areq, stats, sreq, history>>
    /\ LET r0 == [Idle EXCEPT !.op = "editProjectData", !.id = id, !.title = title]
       IN req' = [req EXCEPT ![s] =
             IF id \notin DOMAIN projects THEN Respond(r0, 404)
             ELSE [r0 EXCEPT !.pc = "save", !.found = TRUE, !.pre = projects[id],
                             !.doc = [projects[id] EXCEPT
                                        !.title = SetIfTruthy(title, @)]]]

\* ------------------------------------------------------------- requireAuths
\* A header is missing, or carries a token jwt.verify accepts, or one it
\* rejects as expired or as invalid.
NoHeader == "none"
Tokens == { NoHeader, "valid", "expired", "invalid" }

\* jwt.verify(token, JWT_SECRET): returns the payload or throws.
jwt_verify(token) == token = "valid"

\* What the middleware did with a request.
\*   next: next() was called;  status, error: the rejection it sent;
\*   verified: the headers jwt.verify was called on, in order;
\*   refreshed, header: a new access token was signed and set in the
\*     Authorization response header;
\*   admin: the payload attached to the request as req.admin.
Rejected(st, err, verified) ==
    [next |-> FALSE, status |-> st, error |-> err, verified |-> verified,
     refreshed |-> FALSE, header |-> NoHeader, admin |-> "none"]

Authorized(verified, refreshed, payload) ==
    [next |-> TRUE, status |-> 0, error |-> "", verified |-> verified,
     refreshed |-> refreshed,
     header |-> IF refreshed THEN "Bearer newAccessToken" ELSE NoHeader,
     admin |-> payload]

\* Mutant: a request with a refresh token alone is verified and refreshed.
requireAuths_refreshAlone(authorization, refresh_token) ==
    IF authorization = NoHeader /\ refresh_token = NoHeader
      THEN Rejected(404, "Must be logged in", << >>)
    ELSE IF authorization # NoHeader /\ jwt_verify(authorization)
      THEN Authorized(<<"authorization">>, FALSE, "access payload")
    ELSE IF refresh_token # NoHeader
      THEN IF jwt_verify(refresh_token)
             THEN Authorized(<<"refresh_token">>, TRUE, "refresh payload")
             ELSE Rejected(403, "Invalid refresh token", <<"refresh_token">>)
    ELSE Rejected(403, "Token expired, and no refresh token provided",
                  <<"authorization">>)

\* Mutant: a request without tokens is answered like one whose token failed.
requireAuths_noTokens403(authorization, refresh_token) ==
    IF authorization = NoHeader
      THEN Rejected(403, "Unable to verify token", << >>)
    ELSE IF jwt_verify(authorization)
      THEN Authorized(<<"authorization">>, FALSE, "access payload")
    ELSE IF refresh_token # NoHeader /\ jwt_verify(refresh_token)
      THEN Authorized(<<"authorization", "refresh_token">>, TRUE, "refresh payload")
    ELSE Rejected(403, "Invalid refresh token", <<"authorization">>)

\* Mutant: the refresh token is looked at but no new access token is issued.
requireAuths_noRefresh(authorization, refresh_token) ==
    IF authorization = NoHeader /\ refresh_token = NoHeader
      THEN Rejected(404, "Must be logged in", << >>)
    ELSE IF authorization # NoHeader
      THEN IF jwt_verify(authorization)
             THEN Authorized(<<"authorization">>, FALSE, "access payload")
           ELSE IF refresh_token # NoHeader
             THEN IF jwt_verify(refresh_token)
                    THEN Authorized(<<"authorization", "refresh_token">>, FALSE,
                                    "refresh payload")
                    ELSE Rejected(403, "Invalid refresh token",
                                  <<"authorization", "refresh_token">>)
             ELSE Rejected(403, "Token expired, and no refresh token provided",
                           <<"authorization">>)
    ELSE Rejected(403, "Unable to verify token", << >>)

\* Mutant: a failed access token is let through.
requireAuths_failedPasses(authorization, refresh_token) ==
    IF authorization = NoHeader /\ refresh_token = NoHeader
      THEN Rejected(404, "Must be logged in", << >>)
    ELSE IF authorization # NoHeader
      THEN IF jwt_verify(authorization)
             THEN Authorized(<<"authorization">>, FALSE, "access payload")
           ELSE IF refresh_token # NoHeader /\ jwt_verify(refresh_token)
             THEN Authorized(<<"authorization", "refresh_token">>, TRUE,
                             "refresh payload")
             ELSE Authorized(<<"authorization">>, FALSE, "none")
    ELSE Rejected(403, "Unable to verify token", << >>)

\* Mutant: an access token is decoded without its signature being verified.
requireAuths_decodeOnly(authorization, refresh_token) ==
    IF authorization = NoHeader /\ refresh_token = NoHeader
      THEN Rejected(404, "Must be logged in", << >>)
    ELSE IF authorization # NoHeader
      THEN Authorized(<<"authorization">>, FALSE, "access payload")
    ELSE Rejected(403, "Unable to verify token", << >>)

\* middlewares/requireAuths
requireAuths(authorization, refresh_token) ==
    IF authorization = NoHeader /\ refresh_token = NoHeader
      THEN Rejected(404, "Must be logged in", << >>)
    ELSE IF authorization # NoHeader
      THEN IF jwt_verify(authorization)
             THEN Authorized(<<"authorization">>, FALSE, "access payload")
           ELSE IF refresh_token # NoHeader
             THEN IF jwt_verify(refresh_token)
                    THEN Authorized(<<"authorization", "refresh_token">>, TRUE,
                                    "refresh payload")
                    ELSE Rejected(403, "Invalid refresh token",
                                  <<"authorization", "refresh_token">>)
             ELSE Rejected(403, "Token expired, and no refresh token provided",
                           <<"authorization">>)
    ELSE Rejected(403, "Unable to verify token", << >>)

\* res.status(...).send({ error: "..." }): the body of a rejection.
RejectionBody(mw) == [error |-> mw.error]

\* ----------------------------------------------------------------- partners
\* models/Partners: fullName and imageUrl are required Strings.
ValidatesPartner(doc) == RequiredString(doc.fullName) /\ doc.imageUrl # Null

FreePartnerIds == PartnerIds \ DOMAIN partners

\* Mutant: the file is not looked at before it is used; reading
\* req.file.originalname of no file throws inside the try.
addPartner_begin_unchecked(s, authorization, refresh_token, fullName, image) ==
    /\ Ready(s)
    /\ (FreePartnerIds # {} \/ image = NoFile)
    /\ UNCHANGED <<projects, partners, storage, admins, areq, stats, sreq, history>>
    /\ LET a == requireAuths(authorization, refresh_token)
           r0 == [Idle EXCEPT !.op = "addPartner", !.title = fullName,
                              !.image = image,
                              !.auth = IF a.next THEN "next" ELSE "rejected"]
       IN req' = [req EXCEPT ![s] =
             IF ~a.next THEN Respond(r0, a.status)
             ELSE IF image = NoFile THEN Respond(r0, 500)
             ELSE [r0 EXCEPT !.pc = "awaitVideo", !.vup = "pending"]]

\* requireAuths; no file: 400; await uploadFile(bucket, imageKey, ...)
addPartner_begin(s, authorization, refresh_token, fullName, image) ==
    /\ Ready(s)
    /\ (FreePartnerIds # {} \/ image = NoFile)
    /\ UNCHANGED <<projects, partners, storage, admins, areq, stats, sreq, history>>
    /\ LET a == requireAuths(authorization, refresh_token)
           r0 == [Idle EXCEPT !.op = "addPartner", !.title = fullName,
                              !.image = image,
                              !.auth = IF a.next THEN "next" ELSE "rejected"]
       IN req' = [req EXCEPT ![s] =
             IF ~a.next THEN Respond(r0, a.status)
             ELSE IF image = NoFile THEN Respond(r0, 400)
             ELSE [r0 EXCEPT !.pc = "awaitVideo", !.vup = "pending"]]

\* new Partner({ fullName, ..., imageUrl: `https://B.s3.amazonaws.com/${imageKey}` })
addPartner_uploaded(s) ==
    /\ req[s].op = "addPartner"
    /\ req[s].pc = "awaitVideo"
    /\ Resolved(req[s].vup)
    /\ UNCHANGED <<projects, partners, storage, admins, areq, stats, sreq, history>>
    /\ req' = [req EXCEPT
                 ![s].pc = "save",
                 ![s].pdoc = [fullName |-> IF req[s].title = Absent THEN "" ELSE req[s].title,
                              imageUrl |-> UrlPlain(req[s].image)]]

\* await partner.save()
addPartner_save(s, dbOk) ==
    /\ req[s].op = "addPartner"
    /\ req[s].pc = "save"
    /\ FreePartnerIds # {}
    /\ UNCHANGED <<projects, storage, admins, areq, stats, sreq, history>>
    /\ IF ValidatesPartner(req[s].pdoc) /\ dbOk
         THEN LET id == CHOOSE i \in FreePartnerIds : \A j \in FreePartnerIds : i <= j
              IN /\ partners' = [i \in DOMAIN partners \cup {id} |->
                                    IF i = id THEN req[s].pdoc ELSE partners[i]]
                 /\ req' = [req EXCEPT ![s] =
                              Respond([@ EXCEPT !.saved = TRUE, !.id = id], 201)]
         ELSE /\ partners' = partners
              /\ req' = [req EXCEPT ![s] = Respond(@, 500)]

\* requireAuths; findById: 404; the scalar fields; with a file and an old
\* image key, the old image is deleted first.
editPartner_begin(s, authorization, refresh_token, id, fullName, image) ==
    /\ Ready(s)
    /\ UNCHANGED <<projects, partners, storage, admins, areq, stats, sreq, history>>
    /\ LET a == requireAuths(authorization, refresh_token)
           r0 == [Idle EXCEPT !.op = "editPartner", !.id = id, !.title = fullName,
                              !.image = image,
                              !.auth = IF a.next THEN "next" ELSE "rejected"]
       IN req' = [req EXCEPT ![s] =
             IF ~a.next THEN Respond(r0, a.status)
             ELSE IF id \notin DOMAIN partners THEN Respond(r0, 404)
             ELSE LET r1 == [r0 EXCEPT !.found = TRUE, !.ppre = partners[id],
                                       !.pdoc = [partners[id] EXCEPT
                                                  !.fullName = SetIfDefined(fullName, @)]]
                  IN IF image # NoFile /\ SplitPop(partners[id].imageUrl) # Null
                       THEN [r1 EXCEPT !.pc = "delOldImage"]
                       ELSE [r1 EXCEPT !.pc = "save"]]

\* await deleteFile(bucket, oldImageKey); then the upload is started.
editPartner_deleteOld(s, ok) ==
    /\ req[s].op = "editPartner"
    /\ req[s].pc = "delOldImage"
    /\ UNCHANGED <<projects, partners, admins, areq, stats, sreq, history>>
    /\ LET key == SplitPop(req[s].pdoc.imageUrl)
           r1 == [req[s] EXCEPT !.vdelCalls = Append(@, key)]
       IN IF ok
            THEN /\ storage' = storage \ {key}
                 /\ req' = [req EXCEPT ![s] =
                              [r1 EXCEPT !.pc = "awaitVideo", !.vup = "pending"]]
            ELSE /\ storage' = storage
                 /\ req' = [req EXCEPT ![s] = Respond([r1 EXCEPT !.delFailed = TRUE], 500)]

\* existingPartner.imageUrl = `https://B.s3.amazonaws.com/${newImageKey}`
editPartner_uploaded(s) ==
    /\ req[s].op = "editPartner"
    /\ req[s].pc = "awaitVideo"
    /\ Resolved(req[s].vup)
    /\ UNCHANGED <<projects, partners, storage, admins, areq, stats, sreq, history>>
    /\ req' = [req EXCEPT ![s].pc = "save",
                          ![s].pdoc.imageUrl = UrlPlain(req[s].image)]

\* await existingPartner.save()
editPartner_save(s, dbOk) ==
    /\ req[s].op = "editPartner"
    /\ req[s].pc = "save"
    /\ UNCHANGED <<projects, storage, admins, areq, stats, sreq, history>>
    /\ IF ValidatesPartner(req[s].pdoc) /\ dbOk
         THEN /\ partners' = [partners EXCEPT ![req[s].id] = req[s].pdoc]
              /\ req' = [req EXCEPT ![s] = Respond([@ EXCEPT !.saved = TRUE], 200)]
         ELSE /\ partners' = partners
              /\ req' = [req EXCEPT ![s] = Respond(@, 500)]

\* requireAuths; findById: 404; the image's delete is awaited.
deletePartner_begin(s, authorization, refresh_token, id) ==
    /\ Ready(s)
    /\ UNCHANGED <<projects, partners, storage, admins, areq, stats, sreq, history>>
    /\ LET a == requireAuths(authorization, refresh_token)
           r0 == [Idle EXCEPT !.op = "deletePartner", !.id = id,
                              !.auth = IF a.next THEN "next" ELSE "rejected"]
       IN req' = [req EXCEPT ![s] =
             IF ~a.next THEN Respond(r0, a.status)
             ELSE IF id \notin DOMAIN partners THEN Respond(r0, 404)
             ELSE [r0 EXCEPT !.found = TRUE, !.ppre = partners[id],
                             !.pdoc = partners[id], !.pc = "delImage"]]

\* Mutant: a failed delete is swallowed and the handler goes on.
deletePartner_deleteImage_swallowed(s, ok) ==
    /\ req[s].op = "deletePartner"
    /\ req[s].pc = "delImage"
    /\ UNCHANGED <<projects, partners, admins, areq, stats, sreq, history>>
    /\ LET key == SplitPop(req[s].pdoc.imageUrl)
       IN /\ storage' = IF ok THEN storage \ {key} ELSE storage
          /\ req' = [req EXCEPT ![s].vdelCalls = Append(@, key),
                                ![s].delFailed = ~ok,
                                ![s].pc = "remove"]

\* await deleteFile(bucket, imageKey)
deletePartner_deleteImage(s, ok) ==
    /\ req[s].op = "deletePartner"
    /\ req[s].pc = "delImage"
    /\ UNCHANGED <<projects, partners, admins, areq, stats, sreq, history>>
    /\ LET key == SplitPop(req[s].pdoc.imageUrl)
           r1 == [req[s] EXCEPT !.vdelCalls = Append(@, key)]
       IN IF ok
            THEN /\ storage' = storage \ {key}
                 /\ req' = [req EXCEPT ![s] = [r1 EXCEPT !.pc = "remove"]]
            ELSE /\ storage' = storage
                 /\ req' = [req EXCEPT ![s] = Respond([r1 EXCEPT !.delFailed = TRUE], 500)]

\* await Partner.findByIdAndDelete(id)
deletePartner_remove(s, dbOk) ==
    /\ req[s].op = "deletePartner"
    /\ req[s].pc = "remove"
    /\ UNCHANGED <<projects, storage, admins, areq, stats, sreq, history>>
    /\ IF dbOk
         THEN /\ partners' = RemoveDoc(partners, req[s].id)
              /\ req' = [req EXCEPT ![s] = Respond([@ EXCEPT !.saved = TRUE], 200)]
         ELSE /\ partners' = partners
              /\ req' = [req EXCEPT ![s] = Respond(@, 500)]

\* -------------------------------------------------------------------- admin
\* The request body is validated: !name || !email || !password answers 400.
addAdmin_begin(s, name, email, password) ==
    /\ areq[s].pc = "idle"
    /\ Len(admins) < MaxAdmins
    /\ UNCHANGED <<projects, partners, storage, req, admins, stats, sreq, history>>
    /\ LET r0 == [AdminIdle EXCEPT !.name = name, !.email = email,
                                   !.password = password, !.pre = admins]
       IN areq' = [areq EXCEPT ![s] =
             IF name = "" \/ email = "" \/ password = ""
               THEN [r0 EXCEPT !.pc = "done", !.status = 400]
               ELSE [r0 EXCEPT !.pc = "findOne"]]

\* Mutant: the lookup is by name.
findOne_name(coll, email) == \E i \in 1..Len(coll) : coll[i].name = email

\* Admin.findOne({ email }): whether some stored account has the email.
findOne_email(coll, email) == \E i \in 1..Len(coll) : coll[i].email = email

\* const existingAdmin = await Admin.findOne({ email }); a match answers 400.
addAdmin_findOne(s, dbOk) ==
    /\ areq[s].pc = "findOne"
    /\ UNCHANGED <<projects, partners, storage, req, admins, stats, sreq, history>>
    /\ areq' = [areq EXCEPT ![s] =
          IF ~dbOk THEN [@ EXCEPT !.pc = "done", !.status = 500]
          ELSE IF findOne_email(admins, @.email)
            THEN [@ EXCEPT !.pc = "done", !.status = 400,
                           !.checked = TRUE, !.existed = TRUE]
            ELSE [@ EXCEPT !.pc = "save", !.checked = TRUE]]

\* await newAdmin.save(); 201
addAdmin_save(s, dbOk) ==
    /\ areq[s].pc = "save"
    /\ UNCHANGED <<projects, partners, storage, req, stats, sreq, history>>
    /\ IF dbOk
         THEN /\ admins' = Append(admins, [name |-> areq[s].name,
                                           email |-> areq[s].email,
                                           password |-> areq[s].password])
              /\ areq' = [areq EXCEPT ![s].pc = "done", ![s].status = 201,
                                      ![s].inserted = @ + 1]
         ELSE /\ admins' = admins
              /\ areq' = [areq EXCEPT ![s].pc = "done", ![s].status = 500]

\* Admin.findByIdAndDelete(id): the account at position i is removed.
deleteAdmin(i) ==
    /\ i \in 1..Len(admins)
    /\ \A s \in AdminSlots : areq[s].pc = "idle"
    /\ admins' = SubSeq(admins, 1, i - 1) \o SubSeq(admins, i + 1, Len(admins))
    /\ UNCHANGED <<projects, partners, storage, req, areq, stats, sreq, history>>

\* The slot takes the next request.
AdminRelease(s) ==
    /\ areq[s].pc = "done"
    /\ areq' = [areq EXCEPT ![s] = AdminIdle]
    /\ UNCHANGED <<projects, partners, storage, req, admins, stats, sreq, history>>

\* -------------------------------------------------------------------- stats
\* models/Stats: title and description are required Strings.
ValidatesStat(doc) == RequiredString(doc.title) /\ RequiredString(doc.description)

\* The request enters the route: requireAuths runs before the handler.
StatRequest(op, id, authorization, refresh_token, title, description) ==
    [StatIdle EXCEPT !.op = op, !.id = id,
                     !.authorization = authorization,
                     !.refresh_token = refresh_token,
                     !.mw = requireAuths(authorization, refresh_token),
                     !.title = title, !.description = description]

\* The middleware's rejection is the response; the handler is not called.
StatRejected(r) == [r EXCEPT !.pc = "done", !.status = r.mw.status]

\* Mutant: the route is registered without the middleware.
StatEnter_open(r, pc) == [r EXCEPT !.pc = pc]

\* router.<method>(path, requireAuths, handler)
StatEnter(r, pc) == IF r.mw.next THEN [r EXCEPT !.pc = pc] ELSE StatRejected(r)

\* POST /addStats: new Stat({ title, description })
addStats_begin(s, authorization, refresh_token, title, description) ==
    /\ sreq[s].pc = "idle"
    /\ UNCHANGED <<projects, partners, storage, req, admins, areq, stats, history>>
    /\ LET r0 == StatRequest("addStats", 0, authorization, refresh_token,
                             title, description)
           r1 == [r0 EXCEPT !.doc = [title |-> CastString(title),
                                     description |-> CastString(description)]]
       IN sreq' = [sreq EXCEPT ![s] = StatEnter(r1, "save")]

\* await stat.save(): 201; catch: 400
addStats_save(s, dbOk) ==
    /\ sreq[s].op = "addStats"
    /\ sreq[s].pc = "save"
    /\ UNCHANGED <<projects, partners, storage, req, admins, areq, history>>
    /\ LET free == StatIds \ DOMAIN stats
       IN IF ValidatesStat(sreq[s].doc) /\ dbOk /\ free # {}
            THEN LET id == CHOOSE i \in free : \A j \in free : i <= j
                 IN /\ stats' = [i \in DOMAIN stats \cup {id} |->
                                     IF i = id THEN sreq[s].doc ELSE stats[i]]
                    /\ sreq' = [sreq EXCEPT ![s].pc = "done", ![s].status = 201,
                                            ![s].id = id]
            ELSE /\ stats' = stats
                 /\ sreq' = [sreq EXCEPT ![s].pc = "done", ![s].status = 400]

\* DELETE /deleteStat/:id
deleteStat_begin(s, authorization, refresh_token, id) ==
    /\ sreq[s].pc = "idle"
    /\ UNCHANGED <<projects, partners, storage, req, admins, areq, stats, history>>
    /\ LET r0 == StatRequest("deleteStat", id, authorization, refresh_token,
                             Absent, Absent)
       IN sreq' = [sreq EXCEPT ![s] = StatEnter(r0, "findByIdAndDelete")]

\* await Stat.findByIdAndDelete(id): none: 404; 200; catch: 500
deleteStat_remove(s, dbOk) ==
    /\ sreq[s].op = "deleteStat"
    /\ sreq[s].pc = "findByIdAndDelete"
    /\ UNCHANGED <<projects, partners, storage, req, admins, areq, history>>
    /\ LET id == sreq[s].id
       IN IF ~dbOk
            THEN /\ stats' = stats
                 /\ sreq' = [sreq EXCEPT ![s].pc = "done", ![s].status = 500]
          ELSE IF id \notin DOMAIN stats
            THEN /\ stats' = stats
                 /\ sreq' = [sreq EXCEPT ![s].pc = "done", ![s].status = 404]
          ELSE /\ stats' = [i \in DOMAIN stats \ {id} |-> stats[i]]
               /\ sreq' = [sreq EXCEPT ![s].pc = "done", ![s].status = 200,
                                       ![s].found = TRUE, ![s].pre = stats[id]]

\* PUT /editStat/:id
editStat_begin(s, authorization, refresh_token, id, title, description) ==
    /\ sreq[s].pc = "idle"
    /\ UNCHANGED <<projects, partners, storage, req, admins, areq, stats, history>>
    /\ LET r0 == StatRequest("editStat", id, authorization, refresh_token,
                             title, description)
       IN sreq' = [sreq EXCEPT ![s] = StatEnter(r0, "findById")]

\* await Stat.findById(id): none: 404; the fields present in the body are set.
editStat_findById(s, dbOk) ==
    /\ sreq[s].op = "editStat"
    /\ sreq[s].pc = "findById"
    /\ UNCHANGED <<projects, partners, storage, req, admins, areq, stats, history>>
    /\ LET id == sreq[s].id
           r == sreq[s]
       IN sreq' = [sreq EXCEPT ![s] =
             IF ~dbOk THEN [r EXCEPT !.pc = "done", !.status = 400]
             ELSE IF id \notin DOMAIN stats
               THEN [r EXCEPT !.pc = "done", !.status = 404]
             ELSE [r EXCEPT !.pc = "save", !.found = TRUE, !.pre = stats[id],
                            !.doc = [title |-> SetIfDefined(r.title, stats[id].title),
                                     description |-> SetIfDefined(r.description,
                                                                  stats[id].description)]]]

\* await existingStat.save(): 200; catch: 400
editStat_save(s, dbOk) ==
    /\ sreq[s].op = "editStat"
    /\ sreq[s].pc = "save"
    /\ UNCHANGED <<projects, partners, storage, req, admins, areq, history>>
    /\ IF ValidatesStat(sreq[s].doc) /\ dbOk /\ sreq[s].id \in DOMAIN stats
         THEN /\ stats' = [stats EXCEPT ![sreq[s].id] = sreq[s].doc]
              /\ sreq' = [sreq EXCEPT ![s].pc = "done", ![s].status = 200]
         ELSE /\ stats' = stats
              /\ sreq' = [sreq EXCEPT ![s].pc = "done", ![s].status = 400]

\* The slot takes the next request.
StatRelease(s) ==
    /\ sreq[s].pc = "done"
    /\ sreq' = [sreq EXCEPT ![s] = StatIdle]
    /\ UNCHANGED <<projects, partners, storage, req, admins, areq, stats, history>>

\* ------------------------------------------------------------- bucket routes
\* The routes of the image router (part_008) and of the video router (box.js)
\* call S3 themselves; s3Service.deleteFile is the gateway the other routers
\* call.
UploadRoutes == { "image/uploadFile", "box/uploadVideo" }
DeleteRoutes == { "s3Service.deleteFile", "image/deleteFile", "box/deleteVideo" }

\* An answered request: ok is a response below 400 (for the gateway, a
\* fulfilled promise); fault is a call that S3 failed for a reason other than
\* the state of the key.
Answered(r, st, fault) ==
    Append(history, [route |-> r.op, key |-> r.key, status |-> st,
                     ok |-> st < 400, fault |-> fault])

\* POST /uploadFile, POST /uploadVideo: the MIME type is checked, then the
\* file is put under its original name.
upload_begin(s, route, key, allowed) ==
    /\ Ready(s)
    /\ Len(history) < MaxCalls
    /\ route \in UploadRoutes
    /\ LET r0 == [Idle EXCEPT !.op = route, !.key = key]
       IN IF allowed
            THEN /\ req' = [req EXCEPT ![s] = [r0 EXCEPT !.pc = "put"]]
                 /\ history' = history
            ELSE /\ req' = [req EXCEPT ![s] = Respond(r0, 400)]
                 /\ history' = Answered(r0, 400, FALSE)
    /\ UNCHANGED <<projects, partners, storage, admins, areq, stats, sreq>>

\* await s3.send(new PutObjectCommand(params)): 201; catch: 500
upload_put(s, ok) ==
    /\ req[s].op \in UploadRoutes
    /\ req[s].pc = "put"
    /\ storage' = IF ok THEN storage \cup {req[s].key} ELSE storage
    /\ req' = [req EXCEPT ![s] = Respond(@, IF ok THEN 201 ELSE 500)]
    /\ history' = Answered(req[s], IF ok THEN 201 ELSE 500, ~ok)
    /\ UNCHANGED <<projects, partners, admins, areq, stats, sreq>>

\* deleteFile(bucketName, key) of s3Service, and DELETE /deleteFile?key= of
\* the image router (no key: 400): both send the DeleteObjectCommand at once.
deleteFile_begin(s, route, key) ==
    /\ Ready(s)
    /\ Len(history) < MaxCalls
    /\ route \in {"s3Service.deleteFile", "image/deleteFile"}
    /\ LET r0 == [Idle EXCEPT !.op = route, !.key = key]
       IN IF route = "image/deleteFile" /\ key = NoFile
            THEN /\ req' = [req EXCEPT ![s] = Respond(r0, 400)]
                 /\ history' = Answered(r0, 400, FALSE)
            ELSE /\ req' = [req EXCEPT ![s] = [r0 EXCEPT !.pc = "delete"]]
                 /\ history' = history
    /\ UNCHANGED <<projects, partners, storage, admins, areq, stats, sreq>>

\* DELETE /deleteVideo?key= of the video router: no key: 400; the key is
\* probed with a HeadObjectCommand first.
box_deleteVideo_begin(s, key) ==
    /\ Ready(s)
    /\ Len(history) < MaxCalls
    /\ LET r0 == [Idle EXCEPT !.op = "box/deleteVideo", !.key = key]
       IN IF key = NoFile
            THEN /\ req' = [req EXCEPT ![s] = Respond(r0, 400)]
                 /\ history' = Answered(r0, 400, FALSE)
            ELSE /\ req' = [req EXCEPT ![s] = [r0 EXCEPT !.pc = "head"]]
                 /\ history' = history
    /\ UNCHANGED <<projects, partners, storage, admins, areq, stats, sreq>>

\* What S3 answers a HeadObjectCommand: the object is there, or it is not
\* (an error named NotFound), or the call fails otherwise.
HeadOutcomes(key) ==
    IF key \in storage THEN {"ok", "error"} ELSE {"NotFound", "error"}

\* Mutant: a key that is not found is deleted all the same.
box_deleteVideo_head_unprobed(s, outcome) ==
    /\ req[s].op = "box/deleteVideo"
    /\ req[s].pc = "head"
    /\ outcome \in HeadOutcomes(req[s].key)
    /\ req' = [req EXCEPT ![s].probe = outcome, ![s].pc = "delete"]
    /\ history' = history
    /\ UNCHANGED <<projects, partners, storage, admins, areq, stats, sreq>>

\* await s3.send(headCommand); NotFound: 404; another error is thrown again
\* and caught: 500.
box_deleteVideo_head(s, outcome) ==
    /\ req[s].op = "box/deleteVideo"
    /\ req[s].pc = "head"
    /\ outcome \in HeadOutcomes(req[s].key)
    /\ LET r1 == [req[s] EXCEPT !.probe = outcome]
       IN CASE outcome = "ok" ->
                 /\ req' = [req EXCEPT ![s] = [r1 EXCEPT !.pc = "delete"]]
                 /\ history' = history
            [] outcome = "NotFound" ->
                 /\ req' = [req EXCEPT ![s] = Respond(r1, 404)]
                 /\ history' = Answered(r1, 404, FALSE)
            [] OTHER ->
                 /\ req' = [req EXCEPT ![s] = Respond(r1, 500)]
                 /\ history' = Answered(r1, 500, TRUE)
    /\ UNCHANGED <<projects, partners, storage, admins, areq, stats, sreq>>

\* await s3.send(new DeleteObjectCommand(params)): S3 answers a delete of a
\* key it does not hold like one of a key it holds. 200; catch: 500 (the
\* gateway's promise is fulfilled or rejected).
route_delete(s, ok) ==
    /\ req[s].op \in DeleteRoutes
    /\ req[s].pc = "delete"
    /\ storage' = IF ok THEN storage \ {req[s].key} ELSE storage
    /\ LET r1 == [req[s] EXCEPT !.vdelCalls = Append(@, req[s].key),
                                !.delFailed = ~ok]
       IN /\ req' = [req EXCEPT ![s] = Respond(r1, IF ok THEN 200 ELSE 500)]
          /\ history' = Answered(r1, IF ok THEN 200 ELSE 500, ~ok)
    /\ UNCHANGED <<projects, partners, admins, areq, stats, sreq>>

\* ------------------------------------------------------------ specification
FileSeqs ==
    UNION { [1..n -> FileNames] : n \in 0..MaxFiles }

\* title in the body of addProject (a missing title fails validation) and of
\* updateProject; these specifications vary the assets of a request, not its
\* scalar fields.
NewTitles == {"T1", Absent}
BodyTitles == {Absent}

VideoFiles == FileNames \cup {NoFile}

StorageSettles ==
    \E s \in Slots :
        \/ \E i \in 1..MaxFiles, o \in UploadOutcomes : ImageUploadSettles(s, i, o)
        \/ \E o \in UploadOutcomes : VideoUploadSettles(s, o)
        \/ \E i \in 1..MaxImages, ok \in BOOLEAN : DeleteSettles(s, i, ok)

Awaits ==
    \E s \in Slots :
        \/ Release(s)
        \/ awaitImages_rejected(s)
        \/ awaitVideo_rejected(s)
        \/ awaitDeletes_rejected(s)

UpdateProject ==
    \E s \in Slots :
        \/ \E ver \in {VRoutes, VPart7}, id \in ProjIds, t \in BodyTitles,
              fs \in FileSeqs, v \in VideoFiles :
                updateProject_begin(s, ver, id, t, fs, v)
        \/ \E ok \in BOOLEAN : updateProject_deleteImage(s, ok)
        \/ updateProject_startUploads(s)
        \/ updateProject_imagesDone(s)
        \/ \E ok \in BOOLEAN : replaceVideo_deleteOld(s, ok)
        \/ updateProject_videoDone(s)
        \/ \E ok \in BOOLEAN : updateProject_clearVideo(s, ok)
        \/ \E dbOk \in BOOLEAN : updateProject_save(s, dbOk)

AddProject ==
    \E s \in Slots :
        \/ \E t \in NewTitles, fs \in FileSeqs, v \in VideoFiles :
                addProject_begin(s, t, fs, v)
        \/ addProject_videoDone(s)
        \/ addProject_imagesDone(s)
        \/ \E dbOk \in BOOLEAN : addProject_save(s, dbOk)

DeleteProject ==
    \E s \in Slots :
        \/ \E id \in ProjIds : deleteProject_begin(s, id)
        \/ \E ok \in BOOLEAN : deleteProject_deleteVideo(s, ok)
        \/ \E dbOk \in BOOLEAN : deleteProject_remove(s, dbOk)

AddVideo ==
    \E s \in Slots :
        \/ \E id \in ProjIds, v \in VideoFiles : addVideo_begin(s, id, v)
        \/ addVideo_videoDone(s)

AddImages ==
    \E s \in Slots :
        \/ \E id \in ProjIds, fs \in FileSeqs : addImages_begin(s, id, fs)
        \/ addImages_imagesDone(s)

DeleteImages ==
    \E s \in Slots :
        \/ \E id \in ProjIds, isArray \in BOOLEAN, names \in FileSeqs :
                deleteImages_begin(s, id, isArray, names)
        \/ deleteImages_deletesDone(s)

DocumentSave ==
    \E s \in Slots, dbOk \in BOOLEAN : document_save(s, dbOk)

NewNames == {"N1", Absent}
BodyNames == {Absent}

AddPartner ==
    \E s \in Slots :
        \/ \E a \in Tokens, rt \in Tokens, n \in NewNames, f \in VideoFiles :
                addPartner_begin(s, a, rt, n, f)
        \/ addPartner_uploaded(s)
        \/ \E dbOk \in BOOLEAN : addPartner_save(s, dbOk)

EditPartner ==
    \E s \in Slots :
        \/ \E a \in Tokens, rt \in Tokens, id \in PartnerIds, n \in BodyNames,
              f \in VideoFiles :
                editPartner_begin(s, a, rt, id, n, f)
        \/ \E ok \in BOOLEAN : editPartner_deleteOld(s, ok)
        \/ editPartner_uploaded(s)
        \/ \E dbOk \in BOOLEAN : editPartner_save(s, dbOk)

DeletePartner ==
    \E s \in Slots :
        \/ \E a \in Tokens, rt \in Tokens, id \in PartnerIds :
                deletePartner_begin(s, a, rt, id)
        \/ \E ok \in BOOLEAN : deletePartner_deleteImage(s, ok)
        \/ \E dbOk \in BOOLEAN : deletePartner_remove(s, dbOk)

Next ==
    \/ UpdateProject
    \/ AddProject
    \/ DeleteProject
    \/ AddVideo
    \/ AddImages
    \/ DeleteImages
    \/ DocumentSave
    \/ Awaits
    \/ StorageSettles

Spec == Init /\ [][Next]_vars

Emails == { "e1", "e2", "e3" }

AddAdmin(slots) ==
    \E s \in slots :
        \/ \E n \in {"n", ""}, e \in Emails \cup {""}, p \in {"p", ""} :
                addAdmin_begin(s, n, e, p)
        \/ \E dbOk \in BOOLEAN : addAdmin_findOne(s, dbOk)
        \/ \E dbOk \in BOOLEAN : addAdmin_save(s, dbOk)
        \/ AdminRelease(s)

DeleteAdmin == \E i \in 1..MaxAdmins : deleteAdmin(i)

\* addAdmin requests one after the other.
NextAdmin == AddAdmin({1}) \/ DeleteAdmin

SpecAdmin == Init /\ [][NextAdmin]_vars

\* addAdmin requests in flight together: the steps of the two invocations
\* interleave at their await points.
NextAdminConc == AddAdmin(AdminSlots) \/ DeleteAdmin

SpecAdminConc == Init /\ [][NextAdminConc]_vars

\* Requests to both collections, which meet in the bucket.
NextAll == Next \/ AddPartner \/ EditPartner \/ DeletePartner

SpecAll == Init /\ [][NextAll]_vars

\* Values of a scalar field in a JSON body.
StatTitles == { Absent, JsNull, "", Zero, "S1", "S2" }
StatDescriptions == { Absent, "", "D1" }

Stats ==
    \E s \in StatSlots :
        \/ \E a \in Tokens, rt \in Tokens, t \in StatTitles, d \in StatDescriptions :
                addStats_begin(s, a, rt, t, d)
        \/ \E dbOk \in BOOLEAN : addStats_save(s, dbOk)
        \/ \E a \in Tokens, rt \in Tokens, id \in StatIds : deleteStat_begin(s, a, rt, id)
        \/ \E dbOk \in BOOLEAN : deleteStat_remove(s, dbOk)
        \/ \E a \in Tokens, rt \in Tokens, id \in StatIds,
              t \in StatTitles, d \in StatDescriptions :
                editStat_begin(s, a, rt, id, t, d)
        \/ \E dbOk \in BOOLEAN : editStat_findById(s, dbOk)
        \/ \E dbOk \in BOOLEAN : editStat_save(s, dbOk)
        \/ StatRelease(s)

\* The stats routes, each behind requireAuths.
SpecStats == Init /\ [][Stats]_vars

\* The promises a partners handler awaits: the upload of its one file.
PartnerAwaits ==
    \E s \in Slots :
        \/ Release(s)
        \/ awaitVideo_rejected(s)
        \/ \E o \in UploadOutcomes : VideoUploadSettles(s, o)

\* The routes registered behind requireAuths: stats and partners. The two
\* routers share no state, so their requests are taken one after the other.
NoPartnerRequest == \A s \in Slots : req[s].pc = "idle"
NoStatRequest == \A s \in StatSlots : sreq[s].pc = "idle"

NextProtected ==
    \/ NoPartnerRequest /\ Stats
    \/ NoStatRequest /\ AddPartner
    \/ NoStatRequest /\ EditPartner
    \/ NoStatRequest /\ DeletePartner
    \/ NoStatRequest /\ PartnerAwaits

SpecProtected == Init /\ [][NextProtected]_vars

\* Values of a scalar field in a JSON body, and in a multipart form (whose
\* text fields are strings).
ScalarValues == { Absent, JsNull, "", Zero, "T2" }
FormValues == { Absent, "", "T2" }

\* Project requests that vary the scalar fields over one image and one video.
ScalarProjects ==
    \E s \in Slots :
        \/ addProject_begin(s, "T1", << <<"a">> >>, <<"a">>)
        \/ addProject_videoDone(s)
        \/ addProject_imagesDone(s)
        \/ \E dbOk \in BOOLEAN : addProject_save(s, dbOk)
        \/ \E ver \in {VRoutes, VPart7}, id \in ProjIds, t \in FormValues,
              fs \in { << >>, << <<"a">> >> }, v \in { NoFile, <<"a">> } :
                updateProject_begin(s, ver, id, t, fs, v)
        \/ \E ok \in BOOLEAN : updateProject_deleteImage(s, ok)
        \/ updateProject_startUploads(s)
        \/ updateProject_imagesDone(s)
        \/ \E ok \in BOOLEAN : replaceVideo_deleteOld(s, ok)
        \/ updateProject_videoDone(s)
        \/ \E ok \in BOOLEAN : updateProject_clearVideo(s, ok)
        \/ \E dbOk \in BOOLEAN : updateProject_save(s, dbOk)
        \/ \E id \in ProjIds, t \in ScalarValues : editProjectData_begin(s, id, t)
        \/ \E dbOk \in BOOLEAN : document_save(s, dbOk)

\* Partner requests that vary the scalar fields, from an authorized client.
ScalarPartners ==
    \E s \in Slots :
        \/ addPartner_begin(s, "valid", NoHeader, "N1", <<"a">>)
        \/ addPartner_uploaded(s)
        \/ \E dbOk \in BOOLEAN : addPartner_save(s, dbOk)
        \/ \E id \in PartnerIds, n \in ScalarValues, f \in { NoFile, <<"a">> } :
                editPartner_begin(s, "valid", NoHeader, id, n, f)
        \/ \E ok \in BOOLEAN : editPartner_deleteOld(s, ok)
        \/ editPartner_uploaded(s)
        \/ \E dbOk \in BOOLEAN : editPartner_save(s, dbOk)

\* Stats requests that vary the scalar fields, from an authorized client.
ScalarStats ==
    \E s \in StatSlots :
        \/ addStats_begin(s, "valid", NoHeader, "S1", "D1")
        \/ \E dbOk \in BOOLEAN : addStats_save(s, dbOk)
        \/ \E id \in StatIds, t \in StatTitles, d \in StatDescriptions :
                editStat_begin(s, "valid", NoHeader, id, t, d)
        \/ \E dbOk \in BOOLEAN : editStat_findById(s, dbOk)
        \/ \E dbOk \in BOOLEAN : editStat_save(s, dbOk)
        \/ StatRelease(s)

ScalarAwaits ==
    \E s \in Slots :
        \/ Release(s)
        \/ awaitImages_rejected(s)
        \/ awaitVideo_rejected(s)
        \/ \E i \in 1..MaxFiles, o \in UploadOutcomes : ImageUploadSettles(s, i, o)
        \/ \E o \in UploadOutcomes : VideoUploadSettles(s, o)

\* The update handlers of the three routers, requests taken one after the
\* other.
NextScalars ==
    \/ NoPartnerRequest /\ ScalarStats
    \/ NoStatRequest /\ ScalarProjects
    \/ NoStatRequest /\ ScalarPartners
    \/ NoStatRequest /\ ScalarAwaits

SpecScalars == Init /\ [][NextScalars]_vars

\* Two requests on one project at a time: an addProject creates the project;
\* addImages requests, each with at most one image file, run in both slots,
\* and next to them an updateProject request in the first.
ConcFiles == { fs \in FileSeqs : Len(fs) <= 1 }

ConcUpdates ==
    \/ \E s \in ConcSlots :
          \/ \E id \in ProjIds, fs \in ConcFiles : addImages_begin(s, id, fs)
          \/ addImages_imagesDone(s)
          \/ \E dbOk \in BOOLEAN : document_save(s, dbOk)
          \/ \E o \in UploadOutcomes : ImageUploadSettles(s, 1, o)
          \/ awaitImages_rejected(s)
          \/ Release(s)
    \/ \E s \in Slots :
          \/ \E id \in ProjIds, fs \in ConcFiles :
                  updateProject_begin(s, VPart7, id, Absent, fs, <<"a">>)
          \/ \E ok \in BOOLEAN : updateProject_deleteImage(s, ok)
          \/ updateProject_startUploads(s)
          \/ updateProject_imagesDone(s)
          \/ \E ok \in BOOLEAN : replaceVideo_deleteOld(s, ok)
          \/ updateProject_videoDone(s)
          \/ \E dbOk \in BOOLEAN : updateProject_save(s, dbOk)
          \/ \E o \in UploadOutcomes : VideoUploadSettles(s, o)
          \/ awaitVideo_rejected(s)

ConcCreate ==
    \/ \E s \in Slots : addProject_begin(s, "T1", << <<"a">> >>, <<"a">>)
    \/ \E s \in Slots : addProject_videoDone(s)
    \/ \E s \in Slots : addProject_imagesDone(s)
    \/ \E s \in Slots, dbOk \in BOOLEAN : addProject_save(s, dbOk)

NextConc == ConcCreate \/ ConcUpdates

SpecConc == Init /\ [][NextConc]_vars

DeleteVideo ==
    \E s \in Slots :
        \/ \E id \in ProjIds : deleteVideo_begin(s, id)
        \/ \E ok \in BOOLEAN : deleteVideo_deleteFile(s, ok)

\* Projects are created and their videos deleted.
NextVideo == AddProject \/ DeleteVideo \/ DocumentSave \/ ScalarAwaits

SpecVideo == Init /\ [][NextVideo]_vars

\* An imageNames entry of the query string: a file's name, or another piece
\* of text.
QueryNames == FileNames \cup { <<".s3">> }

\* Projects are created and images deleted from them by name.
NextImages ==
    \/ AddProject
    \/ \E s \in Slots, id \in ProjIds, isArray \in BOOLEAN,
          names \in UNION { [1..n -> QueryNames] : n \in 0..MaxFiles } :
            deleteImages_begin(s, id, isArray, names)
    \/ \E s \in Slots : deleteImages_deletesDone(s)
    \/ DocumentSave
    \/ Awaits
    \/ StorageSettles

SpecImages == Init /\ [][NextImages]_vars

\* The key in the query string: a file's name, or none.
QueryKeys == FileNames \cup {NoFile}

BucketRoutes ==
    \E s \in Slots :
        \/ \E route \in UploadRoutes, key \in FileNames, allowed \in BOOLEAN :
                upload_begin(s, route, key, allowed)
        \/ \E ok \in BOOLEAN : upload_put(s, ok)
        \/ \E route \in DeleteRoutes, key \in QueryKeys : deleteFile_begin(s, route, key)
        \/ \E key \in QueryKeys : box_deleteVideo_begin(s, key)
        \/ \E outcome \in {"ok", "NotFound", "error"} : box_deleteVideo_head(s, outcome)
        \/ \E ok \in BOOLEAN : route_delete(s, ok)
        \/ Release(s)

\* The routes that put and delete objects by key.
SpecAssets == Init /\ [][BucketRoutes]_vars

\* ------------------------------------------------------------------- claims
\* The filename of a URL: its last path segment.
Filename(url) == SplitPop(url)

\* No submitted image file of request r is named like the URL's filename.
Unmatched(r, url) == \A i \in 1..Len(r.files) : r.files[i] # Filename(url)

\* The image delete loop of updateProject request r ended in a failed delete.
ImageDeleteFailed(r) == r.delFailed /\ r.vdelCalls = << >>

\* The image delete loop of updateProject request r ran to its end.
ImageLoopDone(r) ==
    \/ r.pc \in {"awaitImages", "delOldVideo", "awaitVideo", "clearVideo", "save"}
    \/ r.pc = "done" /\ ~ImageDeleteFailed(r)

\* C1: in updateProject, a key is passed to the storage delete of the image
\* loop only for an existing URL whose filename no submitted file has; a URL
\* whose filename matches a submitted file is never passed to it; and once
\* the loop has run to its end, every existing URL with no matching file has
\* been passed to it and its object is gone from storage.
C1_DeletedIffUnmatched ==
    \A s \in Slots :
        LET r == req[s]
            existing == r.pre.images
        IN (r.op = "updateProject" /\ r.found) =>
             /\ \A k \in 1..Len(r.delCalls) :
                    \E j \in 1..Len(existing) :
                       /\ Filename(existing[j]) = r.delCalls[k]
                       /\ Unmatched(r, existing[j])
             /\ \A j \in 1..Len(existing) :
                    ~Unmatched(r, existing[j]) =>
                       ~Includes(r.delCalls, Filename(existing[j]))
             /\ ImageLoopDone(r) =>
                    \A j \in 1..Len(existing) :
                       Unmatched(r, existing[j]) =>
                          Includes(r.delCalls, Filename(existing[j]))
             /\ r.pc = "awaitImages" =>
                    \A j \in 1..Len(existing) :
                       Unmatched(r, existing[j]) =>
                          Filename(existing[j]) \notin storage

\* An update of a project with a kept and a removed image, after the loop.
C1_Witness ==
    \E s \in Slots :
        LET r == req[s]
        IN /\ r.op = "updateProject"
           /\ r.pc = "awaitImages"
           /\ r.delCalls # << >>
           /\ \E j \in 1..Len(r.pre.images) : ~Unmatched(r, r.pre.images[j])
           /\ \E j \in 1..Len(r.pre.images) : Unmatched(r, r.pre.images[j])

\* C2: after a successful updateProject the persisted images list is the
\* existing URLs that were not deleted, in their order, followed by one URL
\* per submitted image file, in submission order, each ending in that file's
\* original name.
C2_ImagesAfterUpdate ==
    \A s \in Slots :
        LET r == req[s]
            kept == SelectSeq(r.pre.images, LAMBDA url : ~Unmatched(r, url))
        IN (r.op = "updateProject" /\ r.pc = "done" /\ r.status = 200) =>
             LET images == projects[r.id].images
             IN /\ Len(images) = Len(kept) + Len(r.files)
                /\ SubSeq(images, 1, Len(kept)) = kept
                /\ \A i \in 1..Len(r.files) :
                       Filename(images[Len(kept) + i]) = r.files[i]

\* C3: no project's persisted images list holds an entry twice, and updating
\* a project whose images are [a, b] with the one file b deletes a and leaves
\* a list of one entry, b's URL.
C3_ImagesUnique ==
    /\ \A id \in DOMAIN projects :
          \A i, j \in 1..Len(projects[id].images) :
             projects[id].images[i] = projects[id].images[j] => i = j
    /\ \A s \in Slots :
          LET r == req[s]
          IN ( /\ r.op = "updateProject" /\ r.pc = "done" /\ r.status = 200
               /\ Len(r.pre.images) = 2
               /\ Filename(r.pre.images[1]) = <<"a">>
               /\ Filename(r.pre.images[2]) = <<"b">>
               /\ r.files = << <<"b">> >> ) =>
                 /\ Includes(r.delCalls, <<"a">>)
                 /\ Len(projects[r.id].images) = 1
                 /\ Filename(projects[r.id].images[1]) = <<"b">>

\* C4: an updateProject or addImages request with a failed image upload
\* writes nothing: the persisted record is the record of before the request.
C4_FailedUploadSavesNothing ==
    \A s \in Slots :
        LET r == req[s]
        IN (r.op \in {"updateProject", "addImages"} /\ r.found /\ SomeRejected(r.up)) =>
             /\ ~r.saved
             /\ r.id \in DOMAIN projects
             /\ projects[r.id] = r.pre

\* A request that answered after one upload succeeded and another failed.
C4_Witness ==
    \E s \in Slots :
        LET r == req[s]
        IN /\ r.op \in {"updateProject", "addImages"}
           /\ r.pc = "done"
           /\ \E i, j \in 1..Len(r.up) : r.up[i] = "ok" /\ r.up[j] = "failed"

\* C5: a failed storage delete of a removed image does not fail the
\* updateProject request: the remaining deletes and the uploads are still
\* attempted and the answer is not an error because of it.
C5_DeleteFailureNotFatal ==
    \A s \in Slots :
        LET r == req[s]
        IN (r.op = "updateProject" /\ r.pc = "done" /\ ImageDeleteFailed(r)) =>
             /\ Len(r.delCalls) = Len(SelectSeq(r.pre.images, LAMBDA url : Unmatched(r, url)))
             /\ Len(r.up) = Len(r.files)
             /\ (r.status = 400 => SomeRejected(r.up) \/ r.vup = "failed" \/ ~Validates(r.doc))

\* The requests that upload images, join the uploads and write a project.
Writers == {"addProject", "updateProject", "addImages"}

\* C6: in addProject, updateProject and addImages the image uploads are
\* started together, and the record is written only when every upload of the
\* request, the video's included, has been fulfilled.
C6_WriteAfterUploads ==
    [][ \A s \in Slots :
          /\ (req'[s].op \in Writers /\ req'[s].up # << >>) =>
                 Len(req'[s].up) = Len(req'[s].files)
          /\ (req[s].op \in Writers /\ projects' # projects) =>
                 /\ Len(req[s].up) = Len(req[s].files)
                 /\ \A i \in 1..Len(req[s].up) : req[s].up[i] = "ok"
                 /\ req[s].video # NoFile => req[s].vup = "ok"
                 /\ req[s].video = NoFile => req[s].vup = "none" ]_vars

\* A project written after two image uploads and a video upload.
C6_Witness ==
    \E s \in Slots :
        /\ req[s].op \in Writers
        /\ req[s].saved
        /\ Len(req[s].files) = 2
        /\ req[s].video # NoFile

\* C7: when the upload of the replacement file fails in editPartner, addVideo
\* or updateProject (video), the persisted reference is still the old URL.
C7_FailedReplacementKeepsReference ==
    \A s \in Slots :
        LET r == req[s]
        IN (r.found /\ r.vup = "failed") =>
             /\ r.op = "editPartner" =>
                    /\ r.id \in DOMAIN partners
                    /\ partners[r.id].imageUrl = r.ppre.imageUrl
                    /\ partners[r.id].imageUrl # Null
             /\ r.op \in {"addVideo", "updateProject"} =>
                    /\ r.id \in DOMAIN projects
                    /\ projects[r.id].video = r.pre.video

\* editPartner answered after the upload of the new image failed.
C7_Witness ==
    \E s \in Slots :
        /\ req[s].op = "editPartner"
        /\ req[s].pc = "done"
        /\ req[s].vup = "failed"
        /\ req[s].vdelCalls # << >>

\* C8: an updateProject request with no video file keeps the project's
\* video: no storage delete is issued for it and the persisted reference is
\* unchanged.
C8_NoVideoKeepsVideo ==
    \A s \in Slots :
        LET r == req[s]
        IN (r.op = "updateProject" /\ r.found /\ r.video = NoFile) =>
             /\ r.vdelCalls = << >>
             /\ projects[r.id].video = r.pre.video

C10_AddAdminByEmail ==
    \A s \in AdminSlots :
        LET r == areq[s]
        IN ( /\ r.pc = "done" /\ r.status # 500
             /\ r.name # "" /\ r.email # "" /\ r.password # "" ) =>
               IF \E i \in 1..Len(r.pre) : r.pre[i].email = r.email
                 THEN r.status = 400 /\ admins = r.pre
                 ELSE /\ r.status = 201
                      /\ admins = Append(r.pre, [name |-> r.name, email |-> r.email,
                                                 password |-> r.password])

\* addAdmin answered 400 for an email that an account already has.
C10_Witness ==
    \E s \in AdminSlots :
        /\ areq[s].pc = "done"
        /\ areq[s].status = 400
        /\ areq[s].existed
        /\ areq[s].name # ""

\* C11: in every reachable state, whatever the interleaving of concurrent
\* addAdmin requests, no two stored admin accounts have the same email.
C11_EmailsUnique ==
    \A i, j \in 1..Len(admins) :
        admins[i].email = admins[j].email => i = j

\* The access token was supplied and jwt.verify rejected it.
AccessFailed(r) == r.authorization \in {"expired", "invalid"}

\* The handler of the route was entered.
HandlerCalled(r) == r.pc \notin {"idle", "done"} \/ r.status # r.mw.status

\* C12: a request with neither an authorization nor a refresh_token header is
\* answered 404 with the must-be-logged-in error by the middleware, and the
\* protected handler is never called for it.
C12_NoTokens404 ==
    \A s \in StatSlots :
        LET r == sreq[s]
        IN (r.op # "none" /\ r.authorization = NoHeader /\ r.refresh_token = NoHeader) =>
             /\ ~r.mw.next
             /\ r.mw.status = 404
             /\ r.mw.error = "Must be logged in"
             /\ r.pc = "done"
             /\ r.status = 404
             /\ ~HandlerCalled(r)

\* A request without tokens was sent to a route whose record exists.
C12_Witness ==
    \E s \in StatSlots :
        /\ sreq[s].op = "deleteStat"
        /\ sreq[s].authorization = NoHeader
        /\ sreq[s].refresh_token = NoHeader
        /\ sreq[s].pc = "done"
        /\ sreq[s].id \in DOMAIN stats

\* C13: when the access token fails verification and the refresh token
\* verifies, the middleware signs a new access token, sets it in the
\* Authorization response header, attaches the refresh token's payload to the
\* request and calls the protected handler.
C13_RefreshProceeds ==
    \A s \in StatSlots :
        LET r == sreq[s]
        IN (r.op # "none" /\ AccessFailed(r) /\ r.refresh_token = "valid") =>
             /\ r.mw.next
             /\ r.mw.refreshed
             /\ r.mw.header = "Bearer newAccessToken"
             /\ r.mw.admin = "refresh payload"
             /\ r.mw.verified = <<"authorization", "refresh_token">>
             /\ HandlerCalled(r)

\* A refreshed request whose handler answered 200.
C13_Witness ==
    \E s \in StatSlots :
        /\ sreq[s].authorization = "expired"
        /\ sreq[s].refresh_token = "valid"
        /\ sreq[s].mw.refreshed
        /\ sreq[s].pc = "done"
        /\ sreq[s].status = 200

\* C14: when the access token fails verification, the middleware answers 403
\* and does not call the handler if no refresh token is supplied, and also
\* if the supplied refresh token fails verification.
C14_FailedAccess403 ==
    \A s \in StatSlots :
        LET r == sreq[s]
        IN (r.op # "none" /\ AccessFailed(r) /\ r.refresh_token # "valid") =>
             /\ ~r.mw.next
             /\ r.mw.status = 403
             /\ r.mw.header = NoHeader
             /\ r.pc = "done"
             /\ r.status = 403
             /\ ~HandlerCalled(r)

\* One request was rejected for its failed refresh token.
C14_Witness ==
    \E s \in StatSlots :
        /\ sreq[s].authorization = "expired"
        /\ sreq[s].refresh_token = "invalid"
        /\ sreq[s].pc = "done"
        /\ sreq[s].mw.error = "Invalid refresh token"

\* C15: a request with a refresh token and no access token is answered 403,
\* valid refresh token or not; jwt.verify is called on the refresh token only
\* after it rejected a supplied access token.
C15_RefreshAlone403 ==
    \A s \in StatSlots :
        LET r == sreq[s]
        IN /\ (r.op # "none" /\ r.authorization = NoHeader /\ r.refresh_token # NoHeader) =>
                /\ ~r.mw.next
                /\ r.mw.status = 403
                /\ r.mw.verified = << >>
                /\ r.pc = "done"
                /\ r.status = 403
                /\ ~HandlerCalled(r)
           /\ Includes(r.mw.verified, "refresh_token") =>
                /\ r.mw.verified = <<"authorization", "refresh_token">>
                /\ AccessFailed(r)

\* A request with a valid refresh token alone was rejected.
C15_Witness ==
    \E s \in StatSlots :
        /\ sreq[s].op = "addStats"
        /\ sreq[s].authorization = NoHeader
        /\ sreq[s].refresh_token = "valid"
        /\ sreq[s].pc = "done"

\* The partners routes that write.
PartnerWrites == {"addPartner", "editPartner", "deletePartner"}

PartialUpdate(given, prior) == IF given = Absent THEN prior ELSE CastString(given)

\* C17: after an editStat, editPartner, editProjectData or updateProject
\* request answered 200, each scalar field holds the body's value if the body
\* has the field (an empty, zero or null value included) and its prior value
\* if not.
C17_PartialUpdateScalars ==
    /\ \A s \in StatSlots :
          LET r == sreq[s]
          IN (r.op = "editStat" /\ r.pc = "done" /\ r.status = 200) =>
               /\ stats[r.id].title = PartialUpdate(r.title, r.pre.title)
               /\ stats[r.id].description = PartialUpdate(r.description, r.pre.description)
    /\ \A s \in Slots :
          LET r == req[s]
          IN /\ (r.op \in {"editProjectData", "updateProject"}
                    /\ r.pc = "done" /\ r.status = 200) =>
                  projects[r.id].title = PartialUpdate(r.title, r.pre.title)
             /\ (r.op = "editPartner" /\ r.pc = "done" /\ r.status = 200) =>
                  partners[r.id].fullName = PartialUpdate(r.title, r.ppre.fullName)

\* Between the answers i and j no upload stored the key of answer i again.
NotStoredBetween(i, j) ==
    \A k \in (i + 1)..(j - 1) :
        ~(history[k].route \in UploadRoutes /\ history[k].key = history[i].key
            /\ history[k].ok)

\* C18: when the delete of a key succeeded through s3Service.deleteFile, the
\* image deleteFile route or the video deleteVideo route, a second delete of
\* the same key through the same entry, no S3 call failing on its own,
\* succeeds too.
C18_DeleteIdempotent ==
    \A i, j \in 1..Len(history) :
        ( /\ i < j
          /\ history[i].route \in DeleteRoutes
          /\ history[j].route = history[i].route
          /\ history[j].key = history[i].key
          /\ history[i].ok
          /\ NotStoredBetween(i, j)
          /\ ~history[j].fault ) => history[j].ok

\* C19: the video deleteVideo route issues the delete only after a
\* successful probe: a probe that finds no object answers 404 and a probe
\* that fails otherwise answers 500, both without a delete.
C19_ProbeBeforeDelete ==
    \A s \in Slots :
        LET r == req[s]
        IN r.op = "box/deleteVideo" =>
             /\ r.probe = "NotFound" =>
                   r.pc = "done" /\ r.status = 404 /\ r.vdelCalls = << >>
             /\ r.probe = "error" =>
                   r.pc = "done" /\ r.status = 500 /\ r.vdelCalls = << >>
             /\ r.vdelCalls # << >> => r.probe = "ok"
             /\ r.pc = "delete" => r.probe = "ok"

\* The route answered 404 for a key that an earlier request had deleted.
C19_Witness ==
    /\ \E s \in Slots :
          /\ req[s].op = "box/deleteVideo"
          /\ req[s].probe = "NotFound"
          /\ req[s].pc = "done"
    /\ \E i \in 1..Len(history) :
          history[i].route = "box/deleteVideo" /\ history[i].status = 200

\* The canonical form of an asset's address: region segment included, the key
\* a file's original name.
CanonicalUrls == { UrlRegional(f) : f \in FileNames }

\* C20: every asset address stored on a project or on a partner has the
\* canonical form https://{bucket}.s3.{region}.amazonaws.com/{key}.
C20_CanonicalUrls ==
    /\ \A id \in DOMAIN projects :
          /\ \A i \in 1..Len(projects[id].images) :
                projects[id].images[i] \in CanonicalUrls
          /\ projects[id].video # Null => projects[id].video \in CanonicalUrls
    /\ \A id \in DOMAIN partners :
          partners[id].imageUrl # Null => partners[id].imageUrl \in CanonicalUrls

\* C21: addProject with its scalar fields and at least one image but no video
\* is accepted: the document it hands to save() passes the schema, and what it
\* stores has a null video and one address per submitted image, in order.
C21_AddProjectWithoutVideo ==
    \A s \in Slots :
        LET r == req[s]
        IN ( /\ r.op = "addProject"
             /\ r.title # Absent
             /\ r.files # << >>
             /\ r.video = NoFile ) =>
               /\ r.pc = "save" => Validates(r.doc)
               /\ r.pc = "done" /\ r.saved =>
                     /\ r.status = 201
                     /\ projects[r.id].video = Null
                     /\ projects[r.id].images =
                          [i \in 1..Len(r.files) |-> UrlPlain(r.files[i])]

\* C22: every stored partner has an image address, and addPartner without an
\* image file is answered 400 with no upload started and nothing inserted.
C22_PartnerHasImage ==
    /\ \A id \in DOMAIN partners :
          /\ partners[id].imageUrl # Null
          /\ SplitPop(partners[id].imageUrl) \in FileNames
    /\ \A s \in Slots :
          LET r == req[s]
          IN ( r.op = "addPartner" /\ r.auth = "next" /\ r.image = NoFile ) =>
               /\ r.pc = "done"
               /\ r.status = 400
               /\ r.vup = "none"
               /\ ~r.saved

\* addPartner without a file was refused while a partner is stored whose image
\* an earlier editPartner replaced.
C22_Witness ==
    /\ \E s \in Slots :
          /\ req[s].op = "addPartner"
          /\ req[s].auth = "next"
          /\ req[s].image = NoFile
          /\ req[s].status = 400
    /\ \E id \in DOMAIN partners : partners[id].imageUrl = UrlPlain(<<"b">>)
    /\ <<"a">> \notin storage

\* C23: concurrent updates of one project are not serialised. Each save
\* writes the record as its handler made it from its own earlier read,
\* whatever was saved in between, so the save that comes last decides the
\* stored record.
C23_LastWriteWins ==
    [][ \A s \in ConcSlots :
          ( /\ req[s].op \in {"addImages", "updateProject"}
            /\ req[s].pc = "save"
            /\ req'[s].pc = "done"
            /\ req'[s].saved ) =>
              projects'[req[s].id] = req[s].doc ]_vars

\* Two addImages requests read the same record and both saved; the address
\* the first one added is not in the stored list.
C23_Witness ==
    /\ \A s \in ConcSlots :
          req[s].op = "addImages" /\ req[s].pc = "done" /\ req[s].saved
    /\ req[1].id = req[2].id
    /\ req[1].pre = req[2].pre
    /\ projects[req[2].id] = req[2].doc
    /\ \E i \in 1..Len(req[1].doc.images) :
          /\ ~Includes(req[1].pre.images, req[1].doc.images[i])
          /\ ~Includes(projects[req[1].id].images, req[1].doc.images[i])

C25_FailureEnvelope ==
    \A s \in StatSlots :
        ( sreq[s].pc = "done" /\ ~sreq[s].mw.next ) =>
            /\ sreq[s].status \in {400, 401, 403, 404, 500}
            /\ DOMAIN RejectionBody(sreq[s].mw) = {"message"}

\* C26: once every request is answered, each address held by a stored project
\* or partner names an object that is in the bucket.
C26_ReferencesStored ==
    ( \A s \in Slots : req[s].pc \in {"idle", "done"} ) =>
        /\ \A id \in DOMAIN projects :
              /\ projects[id].video # Null => SplitPop(projects[id].video) \in storage
              /\ \A i \in 1..Len(projects[id].images) :
                    SplitPop(projects[id].images[i]) \in storage
        /\ \A id \in DOMAIN partners :
              partners[id].imageUrl # Null =>
                  SplitPop(partners[id].imageUrl) \in storage

\* Some stored project or partner holds an address that names the key.
Referenced(key) ==
    \/ \E id \in DOMAIN projects :
          \/ projects[id].video # Null /\ SplitPop(projects[id].video) = key
          \/ \E i \in 1..Len(projects[id].images) :
                SplitPop(projects[id].images[i]) = key
    \/ \E id \in DOMAIN partners :
          partners[id].imageUrl # Null /\ SplitPop(partners[id].imageUrl) = key

\* The keys whose upload by the request was fulfilled.
UploadedBy(r) ==
    { r.files[i] : i \in { j \in 1..Len(r.up) : r.up[j] = "ok" } }
        \cup (IF r.vup = "ok" THEN {SingleFile(r)} ELSE {})

\* C27: once a request of addProject, updateProject, addImages, addVideo,
\* addPartner or editPartner is answered with an error and its uploads have
\* settled, every object it uploaded that is in the bucket is named by a
\* stored record.
C27_NoOrphans ==
    \A s \in Slots :
        LET r == req[s]
        IN ( /\ r.op \in {"addProject", "updateProject", "addImages", "addVideo",
                          "addPartner", "editPartner"}
             /\ r.pc = "done"
             /\ r.status >= 400
             /\ PendingUploads(r) = {}
             /\ r.vup # "pending" ) =>
               \A key \in UploadedBy(r) \cap storage : Referenced(key)

\* C28: deleteVideo on a project that has a video deletes the object, stores
\* the project with a null video and answers 200 (the document it hands to
\* save() passes the schema); on a project without a video it answers 404
\* and calls no delete.
C28_DeleteVideo ==
    \A s \in Slots :
        LET r == req[s]
        IN ( r.op = "deleteVideo" /\ r.found ) =>
             /\ r.pre.video = Null =>
                   r.pc = "done" /\ r.status = 404 /\ r.vdelCalls = << >>
             /\ r.pc = "save" =>
                   /\ r.doc.video = Null
                   /\ SplitPop(r.pre.video) \notin storage
                   /\ Validates(r.doc)
             /\ r.pc = "done" /\ r.saved =>
                   r.status = 200 /\ projects[r.id].video = Null

\* C29: the middleware hands a request to the handler only with a verified
\* identity: the access token verified, or an access token was supplied,
\* failed, and the refresh token verified. Every other request gets one
\* rejection and never reaches the handler; a request is either passed on or
\* rejected, never both.
C29_NextOnlyVerified ==
    \A s \in StatSlots :
        LET r == sreq[s]
            verifiedAccess == r.authorization # NoHeader /\ jwt_verify(r.authorization)
            verifiedRefresh ==
                /\ r.authorization # NoHeader
                /\ ~jwt_verify(r.authorization)
                /\ r.refresh_token # NoHeader
                /\ jwt_verify(r.refresh_token)
        IN r.pc # "idle" =>
             /\ r.mw.next <=> (verifiedAccess \/ verifiedRefresh)
             /\ r.mw.next =>
                   r.mw.status = 0 /\ r.mw.error = "" /\ r.mw.admin # "none"
             /\ ~r.mw.next =>
                   /\ r.mw.status \in {403, 404}
                   /\ r.mw.error # ""
                   /\ r.mw.admin = "none"
                   /\ r.pc = "done"
                   /\ r.status = r.mw.status
                   /\ ~HandlerCalled(r)

\* A request with a verified access token was passed on and its handler
\* answered 201.
C29_Witness ==
    \E s \in StatSlots :
        /\ sreq[s].pc = "done"
        /\ sreq[s].mw.next
        /\ sreq[s].mw.verified = <<"authorization">>
        /\ sreq[s].mw.admin = "access payload"
        /\ sreq[s].status = 201

\* The file name of the address is one of the requested names.
NameRequested(r, url) == \E i \in 1..Len(r.files) : r.files[i] = SplitPop(url)

\* C30: deleteImages deletes from the bucket and from the project's list
\* exactly the images whose file name is one of the requested names, keeps the
\* others in their order, and answers 404 with no delete when none matches.
C30_DeleteImagesByName ==
    \A s \in Slots :
        LET r == req[s]
            named == SelectSeq(r.pre.images, LAMBDA url : NameRequested(r, url))
            others == SelectSeq(r.pre.images, LAMBDA url : ~NameRequested(r, url))
        IN ( r.op = "deleteImages" /\ r.found ) =>
             /\ r.toDelete = named
             /\ named = << >> => r.pc = "done" /\ r.status = 404 /\ r.dl = << >>
             /\ r.pc = "done" /\ r.saved => projects[r.id].images = others

====
